---- MODULE Spec2Model ----
(***************************************************************************)
(* Growloom Captioner: the job tracker of src/server/index.js and the page *)
(* of src/src/App.tsx that polls it.                                       *)
(*                                                                         *)
(* src/server/index.js holds two builds of the server, one after the       *)
(* other:                                                                  *)
(*   "overlap"  lines 1-726    batch mode, encode limited to the overlap   *)
(*                             min(video, script) of the two durations     *)
(*   "padding"  lines 727-1549 GPU detection, black padding when the       *)
(*                             script is longer than the video             *)
(* A run of the model is a run of one of the two (variable server).        *)
(*                                                                         *)
(* Node runs one callback at a time: the variable running names the task   *)
(* whose callback holds the thread (0: the event loop is idle). A callback *)
(* is modelled statement by statement, so the order of its writes is       *)
(* visible, and nothing else is interleaved with it.                       *)
(***************************************************************************)
EXTENDS Integers, Sequences, FiniteSets, TLC

VARIABLES
    server,              \* "overlap" | "padding": the build that is running
    now,                 \* Date.now(), in ms since the server started
    processingProgress,  \* global.processingProgress: jobId -> [progress, status]
    processingResults,   \* global.processingResults: jobId -> payload
    tasks,               \* the POST /api/caption requests and their background tasks
    running,             \* index in tasks of the callback being run, 0 when idle
    files,               \* the paths that exist on disk
    timers,              \* pending retirement timers (setTimeout)
    env,                 \* what the environment of this run may still do
    client               \* the page of src/src/App.tsx: its step and its polling

vars == <<server, now, processingProgress, processingResults, tasks, running,
          files, timers, env, client>>

----------------------------------------------------------------------------
(* Bounds of the model *)

\* requests POST /api/caption sent to a server under concurrent load
MaxTasks == 2
\* single milliseconds that pass between the callbacks of a run (timers jump further)
MaxNow == 1
\* script/video pairs of a batch request
MaxPairs == 2
\* requests POST /api/test-progress sent to the server
MaxTestWrites == 1
\* faults (a process that fails, a file that safeDeleteFile leaves behind) met
\* by a batch or by concurrent requests
MaxFaults == 1

\* The runs of the model, by what their environment does. A run with a single
\* request meets every fault a job can meet (one failing process, the palette
\* and the three intermediate files left behind); the runs with a batch, with
\* the debugging endpoint and with concurrent requests bound the faults.
\*   requests  POST /api/caption requests      pairs  pairs of a batch request
\*   ticks     milliseconds passing            tests  POST /api/test-progress
\*   faults    failing processes and files left behind
\*   inputs    whether the scripts and the videos vary (Scripts, VideoDurations)
\*   client    whether the request is sent by the page of src/src/App.tsx
Scenarios ==
    { [requests |-> 1, pairs |-> 0, ticks |-> 0, tests |-> 0, faults |-> 5,
       inputs |-> FALSE, client |-> FALSE],
      [requests |-> 1, pairs |-> 0, ticks |-> 0, tests |-> 0, faults |-> 0,
       inputs |-> TRUE, client |-> FALSE],
      [requests |-> 1, pairs |-> MaxPairs, ticks |-> 0, tests |-> 0, faults |-> MaxFaults,
       inputs |-> FALSE, client |-> FALSE],
      [requests |-> 1, pairs |-> 0, ticks |-> 0, tests |-> MaxTestWrites, faults |-> 0,
       inputs |-> FALSE, client |-> FALSE],
      [requests |-> MaxTasks, pairs |-> 0, ticks |-> MaxNow, tests |-> 0,
       faults |-> MaxFaults, inputs |-> FALSE, client |-> FALSE],
      [requests |-> 1, pairs |-> 0, ticks |-> 0, tests |-> MaxTestWrites,
       faults |-> MaxFaults, inputs |-> FALSE, client |-> TRUE] }

----------------------------------------------------------------------------
(* Program constants *)

\* setTimeout delay of the retirement of a job
RetainMs == 300000
\* setTimeout delay of the retirement of a failed job (padding build)
RetainFailedMs == 60000
\* safeDeleteFile's default maxRetries
maxRetries == 3

Max(a, b) == IF a > b THEN a ELSE b

\* Math.round of the rational num/den (den > 0): floor(x + 1/2)
Round(num, den) == (2 * num + den) \div (2 * den)

----------------------------------------------------------------------------
(* Numbers. The times of the program (seconds) are JavaScript numbers, IEEE    *)
(* 754 doubles. A non-negative number x below 2^16 that is a multiple of 2^-56 *)
(* (every double in [2^-4, 2^16) is one) is the triple <<a, b, c>> of limbs    *)
(* of 24 bits with x * 2^56 = a * 2^48 + b * 2^24 + c, so that the integer     *)
(* part of x is a \div 2^8. The sum, the difference and the product of two     *)
(* such numbers are computed exactly and rounded to 53 significant bits, ties  *)
(* to even, as the processor does.                                             *)

Limb == 2 ^ 24

\* the triple of limbs in 0..Limb-1 of the value a * 2^48 + b * 2^24 + c
Exact(a, b, c) ==
    LET b1 == b + (c \div Limb)
    IN  <<a + (b1 \div Limb), b1 % Limb, c % Limb>>

\* the number of bits of n (0 for n = 0), n < 2^30
BitLength(n) == CHOOSE k \in 0..30 : n < 2 ^ k /\ (k = 0 \/ n >= 2 ^ (k - 1))

\* the double nearest to the value x (x[1] < 2^25), ties to even: of the
\* 48 + BitLength(x[1]) bits of x the lowest s are rounded away
Nearest(x) ==
    LET Rounded(v) ==
            LET s == BitLength(v[1]) - 5
            IN  IF s <= 0 THEN v
                ELSE LET rem == v[3] % (2 ^ s)
                         half == 2 ^ (s - 1)
                         odd == (v[3] \div (2 ^ s)) % 2 = 1
                         up == rem > half \/ (rem = half /\ odd)
                     IN  Exact(v[1], v[2], v[3] - rem + (IF up THEN 2 ^ s ELSE 0))
    IN  CHOOSE r \in {Rounded(v) : v \in {x}} : TRUE

\* k * x and x + y as real numbers
ExactTimes(k, x) == Exact(k * x[1], k * x[2], k * x[3])
ExactPlus(x, y) == Exact(x[1] + y[1], x[2] + y[2], x[3] + y[3])

\* the JavaScript operators x + y, x - y (x >= y) and k * x (k an integer to 100)
Plus(x, y) == Nearest(ExactPlus(x, y))
Minus(x, y) == Nearest(Exact(x[1] - y[1], x[2] - y[2], x[3] - y[3]))
Times(k, x) == Nearest(ExactTimes(k, x))

\* x < y and x <= y
Less(x, y) ==
    \/ x[1] < y[1]
    \/ x[1] = y[1] /\ x[2] < y[2]
    \/ x[1] = y[1] /\ x[2] = y[2] /\ x[3] < y[3]
LessEq(x, y) == x = y \/ Less(x, y)

\* Math.min and Math.max
MathMin(x, y) == IF Less(y, x) THEN y ELSE x
MathMax(x, y) == IF Less(x, y) THEN y ELSE x

\* the number n / 2^8, n an integer: Number(256) is 1, Number(640) is 2.5
Number(n) == <<n, 0, 0>>
Zero == Number(0)

\* the doubles nearest to 0.1, 0.3, 0.7, 3.3 and 6.9
\*   0.1 = 0x1.999999999999ap-4   0.3 = 0x1.3333333333333p-2
\*   0.7 = 0x1.6666666666666p-1   3.3 = 0x1.a666666666666p+1
\*   6.9 = 0x1.b99999999999ap+2
Tenth == <<25, 10066329, 10066330>>
ThreeTenths == <<76, 13421772, 13421772>>
SevenTenths == <<179, 3355443, 3355440>>
ThreePointThree == <<844, 13421772, 13421760>>
SixPointNine == <<1766, 6710886, 6710912>>

----------------------------------------------------------------------------
(* Files *)

\* multer's upload of field kind ("script" | "video") of pair i of request t
Upload(kind, t, i) == <<kind, t, i>>
\* `script-${Date.now()}.srt`, `palette-...png`, `preview-...gif`, `captioned-...mp4`
Stamped(kind, stamp) == <<kind, stamp, 0>>

----------------------------------------------------------------------------
(* The statements of a request and of its background task, in source order *)

I(op) == [op |-> op, p |-> 0, s |-> "", inner |-> FALSE]
\* updateProgress(p, s) of the request handler or of the batch loop
P(p, s) == [op |-> "progress", p |-> p, s |-> s, inner |-> FALSE]
\* updateProgress(p, s) inside processSingleVideo (the callback it was given)
Q(p, s) == [op |-> "progress", p |-> p, s |-> s, inner |-> TRUE]
\* setTimeout(retire, ms)
T(ms) == [op |-> "timer", p |-> ms, s |-> "", inner |-> FALSE]

\* a variant of processSingleVideoTry that encodes before it makes the preview
processSingleVideoTryEncodeFirst ==
    << Q(10, "Parsing script..."), I("parse"),
       Q(20, "Analyzing video..."), I("probe"),
       Q(30, "Generating subtitles..."), I("srt"),
       Q(55, "Processing video with captions..."), I("encode"),
       Q(40, "Creating preview..."), I("palette"), I("gif"), I("rmpalette"),
       Q(98, "Cleaning up..."), I("cleanup"),
       Q(100, "Complete!") >>

\* a variant of processSingleVideoTry that probes the video before it parses
\* the script
processSingleVideoTryProbeFirst ==
    << Q(20, "Analyzing video..."), I("probe"),
       Q(10, "Parsing script..."), I("parse"),
       Q(30, "Generating subtitles..."), I("srt"),
       Q(40, "Creating preview..."), I("palette"), I("gif"), I("rmpalette"),
       Q(55, "Processing video with captions..."), I("encode"),
       Q(98, "Cleaning up..."), I("cleanup"),
       Q(100, "Complete!") >>

\* a variant of processSingleVideoTry that extracts the palette a second time
processSingleVideoTryPaletteTwice ==
    << Q(10, "Parsing script..."), I("parse"),
       Q(20, "Analyzing video..."), I("probe"),
       Q(30, "Generating subtitles..."), I("srt"),
       Q(40, "Creating preview..."), I("palette"), I("palette"), I("gif"),
       I("rmpalette"),
       Q(55, "Processing video with captions..."), I("encode"),
       Q(98, "Cleaning up..."), I("cleanup"),
       Q(100, "Complete!") >>

\* a variant of processSingleVideoTry that reports 100 before it cleans up
processSingleVideoTryCompleteFirst ==
    << Q(10, "Parsing script..."), I("parse"),
       Q(20, "Analyzing video..."), I("probe"),
       Q(30, "Generating subtitles..."), I("srt"),
       Q(40, "Creating preview..."), I("palette"), I("gif"), I("rmpalette"),
       Q(55, "Processing video with captions..."), I("encode"),
       Q(100, "Complete!"), I("cleanup") >>

\* processSingleVideo of the overlap build: its try block
processSingleVideoTry ==
    << Q(10, "Parsing script..."), I("parse"),
       Q(20, "Analyzing video..."), I("probe"),
       Q(30, "Generating subtitles..."), I("srt"),
       Q(40, "Creating preview..."), I("palette"), I("gif"), I("rmpalette"),
       Q(55, "Processing video with captions..."), I("encode"),
       Q(98, "Cleaning up..."), I("cleanup"),
       Q(100, "Complete!") >>

\* a variant of processSingleVideoCatch that rethrows without deleting the files
processSingleVideoCatchNoCleanup == << >>

\* a variant of processSingleVideoCatch that reports the cleanup as the try
\* block does
processSingleVideoCatchReports == << Q(98, "Cleaning up..."), I("cleanup") >>

\* processSingleVideo of the overlap build: its catch block (it rethrows)
processSingleVideoCatch == << I("cleanup") >>

\* a variant of captionHandler that parses the script before it responds
captionHandlerParsesFirst ==
    << P(5, "Validating files..."), I("validate"), I("parse"), I("respond") >>

\* the handler of POST /api/caption up to the start of the background task
captionHandler == << P(5, "Validating files..."), I("validate"), I("respond") >>

\* a variant of processVideoInBackgroundOverlap that sets no timer after a failure
processVideoInBackgroundOverlapNoTimer ==
    [ try   |-> processSingleVideoTry \o << I("store"), T(RetainMs) >>,
      catch |-> processSingleVideoCatch \o << I("storeError"), I("return") >> ]

\* processVideoInBackground of the overlap build, around processSingleVideo
processVideoInBackgroundOverlap ==
    [ try   |-> processSingleVideoTry \o << I("store"), T(RetainMs) >>,
      catch |-> processSingleVideoCatch \o << I("storeError"), T(RetainMs) >> ]

\* processBatchInBackground of the overlap build: the loop over the pairs, then
\* the statements after the loop ("pairOk" and "pairFail" jump back to "pair",
\* "pair" jumps behind the loop when no pair is left)
processBatchInBackground ==
    [ try   |-> << P(5, "Starting batch processing..."), I("pair") >>
                \o processSingleVideoTry \o << I("pairOk") >>,
      catch |-> processSingleVideoCatch
                \o << I("pairFail"),
                      P(100, "Batch processing complete!"), I("storeBatch"),
                      T(RetainMs) >> ]

\* processVideoInBackground of the padding build
processVideoInBackgroundPadding ==
    [ try   |-> << Q(10, "Parsing script..."), Q(15, "Parsing script..."), I("parse"),
                   Q(20, "Analyzing video..."), I("probe"),
                   Q(30, "Generating subtitles..."), I("srt"),
                   Q(35, "Creating preview..."), Q(40, "Creating preview..."),
                   I("palette"), I("gif"), I("rmpalette"),
                   Q(50, "Creating preview..."),
                   Q(55, "Processing video with captions..."), I("encode"),
                   Q(98, "Cleaning up temporary files..."), I("cleanup"),
                   Q(100, "Processing complete!"), I("store"), T(RetainMs) >>,
      catch |-> << I("cleanup"), I("storeError"), Q(0, "Processing failed"),
                   T(RetainFailedMs) >> ]

\* the background task a request of the given mode starts on the given build
Background(build, mode) ==
    IF build = "padding" THEN processVideoInBackgroundPadding
    ELSE IF mode = "batch" THEN processBatchInBackground
    ELSE processVideoInBackgroundOverlap

\* the statements of a request: the handler, the try block, the catch block
Code(build, mode) ==
    captionHandler \o Background(build, mode).try \o Background(build, mode).catch

\* where a throw inside the try block continues
CatchPc(build, mode) == Len(captionHandler) + Len(Background(build, mode).try) + 1

\* the position of the first statement op of a program
IndexOf(code, op) ==
    CHOOSE k \in 1..Len(code) : code[k].op = op /\ \A j \in 1..(k - 1) : code[j].op # op

----------------------------------------------------------------------------
(* The registry *)

\* a variant of Put that writes v over every entry of the registry
PutOverAll(reg, jobId, v) == [k \in DOMAIN reg \cup {jobId} |-> v]

\* reg[jobId] = v
Put(reg, jobId, v) == [k \in DOMAIN reg \cup {jobId} |-> IF k = jobId THEN v ELSE reg[k]]

\* delete reg[jobId]
Delete(reg, jobId) == [k \in DOMAIN reg \ {jobId} |-> reg[k]]

\* updateProgress of the request handler: its closure over jobId
updateProgress(jobId, progress, status) ==
    Put(processingProgress, jobId, [progress |-> progress, status |-> status])

\* the callback processSingleVideo is given: updateProgress itself, or in batch
\* mode the closure that maps the pair's progress into the batch's
\*   5 + pairProgress + (progress / totalPairs * 0.9), pairProgress = (i / totalPairs) * 90
Reported(task, p, s) ==
    IF task.mode = "batch"
    THEN [progress |-> Round(50 * task.n + 900 * task.i + 9 * p, 10 * task.n),
          status |-> "Pair " \o ToString(task.i + 1) \o "/" \o ToString(task.n) \o ": " \o s]
    ELSE [progress |-> p, status |-> s]

\* GET /api/progress/:jobId
GetProgress(jobId) ==
    IF jobId \in DOMAIN processingProgress THEN processingProgress[jobId]
    ELSE [progress |-> 0, status |-> "Starting..."]

\* GET /api/result/:jobId: the status code and the body
GetResult(jobId) ==
    IF jobId \in DOMAIN processingResults
    THEN [code |-> 200, body |-> processingResults[jobId]]
    ELSE [code |-> 404, body |-> [error |-> "Result not found"]]

----------------------------------------------------------------------------
(* Cues. Times are numbers of seconds. A script is the sequence of its lines, *)
(* a line a sequence of word characters and blanks; the text of a cue is its  *)
(* trimmed line.                                                              *)

\* a line of n words with one blank between two words
Line(n) == [k \in 1..(2 * n - 1) |-> IF k % 2 = 1 THEN "w" ELSE " "]

\* the scripts of the requests, as their lines (a line is a sequence of word
\* characters "w" and blanks " "): none, one, two or three lines, one line of
\* thirty words, and lines with blanks around and between the words and with
\* whitespace-only and empty lines between them
Scripts ==
    { <<>>, <<Line(2)>>, <<Line(1), Line(2)>>, <<Line(1), Line(1), Line(1)>>,
      <<Line(30)>>,
      << <<" ", "w", " ">>, <<" ">>, <<>>, <<"w", " ", " ", "w">> >> }
\* the durations ffprobe reports: 2, 3.3, 5, 6.9, 12 and 100 s. With the default
\* options they are inside the first cue, at the boundary of two cues, inside
\* the second cue, at the end of a script, beyond every script
VideoDurations == {Number(512), ThreePointThree, Number(1280), SixPointNine,
                   Number(3072), Number(25600)}
\* the options of the request body: none (0 and "" stand for a field that is
\* absent or does not parse, which the program takes as falsy), options inside
\* the limits (0.0625 is raised to 0.1; fontSize 36.9), options beyond them
\* (12 and 5; fontSize 100), and options below them (-1; fontSize -3)
RequestOptions ==
    { [baseDuration |-> Zero, wordDuration |-> Zero, fontColor |-> "",
       fontWeight |-> "", fontSize |-> Zero, position |-> ""],
      [baseDuration |-> Number(16), wordDuration |-> SevenTenths,
       fontColor |-> "#FFFFFF", fontWeight |-> "normal",
       fontSize |-> <<9446, 6710886, 6710784>>, position |-> "top"],
      [baseDuration |-> Number(3072), wordDuration |-> Number(1280),
       fontColor |-> "red", fontWeight |-> "heavy", fontSize |-> Number(25600),
       position |-> "left"],
      [baseDuration |-> Number(-256), wordDuration |-> Number(-256),
       fontColor |-> "#EC4899", fontWeight |-> "bold", fontSize |-> Number(-768),
       position |-> "center"] }
\* the inputs of the runs whose inputs do not vary
DefaultScripts == {<<>>, <<Line(1), Line(2)>>}
DefaultVideoDurations == {Number(1280)}
DefaultRequestOptions ==
    {[baseDuration |-> Zero, wordDuration |-> Zero, fontColor |-> "",
      fontWeight |-> "", fontSize |-> Zero, position |-> ""]}

\* parseScript's default options: baseDuration = 3, wordDuration = 0.3 (s)
baseDuration == Number(768)
wordDuration == ThreeTenths

\* parseInt of a number written in decimal: its digits before the point
parseInt(x) ==
    IF x[1] >= 0 \/ (x[1] % 256 = 0 /\ x[2] = 0 /\ x[3] = 0) THEN x[1] \div 256
    ELSE (x[1] \div 256) + 1

\* Math.max(lo, Math.min(hi, n)) of integers
ClampInt(lo, hi, n) == IF n < lo THEN lo ELSE IF n > hi THEN hi ELSE n

\* const processOptions = { ... }:
\*   Math.max(0.1, Math.min(10, parseFloat(options.baseDuration) || 3)),
\*   Math.max(0.1, Math.min(2, parseFloat(options.wordDuration) || 0.3)),
\*   options.fontColor || '#EC4899', options.fontWeight || 'bold',
\*   Math.max(12, Math.min(48, parseInt(options.fontSize) || 24)),
\*   ['top', 'center', 'bottom'].includes(options.position) ? options.position : 'bottom'
processOptions(options) ==
    [baseDuration |->
        MathMax(Tenth, MathMin(Number(2560), IF options.baseDuration = Zero
                                             THEN baseDuration
                                             ELSE options.baseDuration)),
     wordDuration |->
        MathMax(Tenth, MathMin(Number(512), IF options.wordDuration = Zero
                                            THEN wordDuration
                                            ELSE options.wordDuration)),
     fontColor |-> IF options.fontColor = "" THEN "#EC4899" ELSE options.fontColor,
     fontWeight |-> IF options.fontWeight = "" THEN "bold" ELSE options.fontWeight,
     fontSize |-> ClampInt(12, 48, IF parseInt(options.fontSize) = 0 THEN 24
                                   ELSE parseInt(options.fontSize)),
     position |-> IF options.position \in {"top", "center", "bottom"}
                  THEN options.position ELSE "bottom"]

\* the options of a task that has not read them yet
NoOptions ==
    [baseDuration |-> Zero, wordDuration |-> Zero, fontColor |-> "", fontWeight |-> "",
     fontSize |-> 0, position |-> ""]

\* a variant of lineDuration that counts one word on every line
lineDurationOneWord(wordCount, options) ==
    Plus(options.baseDuration, options.wordDuration)

\* const duration = baseDuration + (wordCount * wordDuration)
lineDuration(wordCount, options) ==
    Plus(options.baseDuration, Times(wordCount, options.wordDuration))

\* line.trim()
RECURSIVE trim(_)
trim(line) ==
    IF line = <<>> THEN line
    ELSE IF Head(line) = " " THEN trim(Tail(line))
    ELSE IF line[Len(line)] = " " THEN trim(SubSeq(line, 1, Len(line) - 1))
    ELSE line

\* text.split(/\s+/).length of a trimmed text that is not empty
countWords(text) ==
    Cardinality({k \in 1..Len(text) : text[k] # " " /\ (k = 1 \/ text[k - 1] = " ")})

\* the callback of filter: line => line.trim()
NonBlank(line) == trim(line) # <<>>

RECURSIVE parseLines(_, _, _, _, _)
\* lines.forEach of parseScript, from line index on (0-based), at currentTime
parseLines(lines, options, index, currentTime, subtitles) ==
    IF index >= Len(lines) THEN subtitles
    ELSE LET text == trim(lines[index + 1])
             wordCount == countWords(text)
             duration == lineDuration(wordCount, options)
         IN  IF text = <<>>
             THEN parseLines(lines, options, index + 1, currentTime, subtitles)
             ELSE parseLines(lines, options, index + 1, Plus(currentTime, duration),
                             Append(subtitles, [id |-> index + 1, text |-> text,
                                                start |-> currentTime,
                                                end |-> Plus(currentTime, duration),
                                                duration |-> duration]))

\* a variant of parseScript whose first cue starts after one base duration
parseScriptLate(scriptContent, options) ==
    parseLines(SelectSeq(scriptContent, NonBlank), options, 0, options.baseDuration,
               <<>>)

\* a variant of parseScript that numbers the lines before it drops the blank ones
parseScriptAllLines(scriptContent, options) ==
    parseLines(scriptContent, options, 0, Zero, <<>>)

\* const lines = scriptContent.split('\n').filter(line => line.trim());
\* let currentTime = 0; lines.forEach(...); return subtitles
parseScript(scriptContent, options) ==
    parseLines(SelectSeq(scriptContent, NonBlank), options, 0, Zero, <<>>)

\* subtitles[subtitles.length - 1].end
subtitlesDuration(subtitles) == subtitles[Len(subtitles)].end

\* a variant of processingDuration that takes the longer duration in both builds
processingDurationLonger(build, videoDuration, subtitles) ==
    MathMax(videoDuration, subtitlesDuration(subtitles))

\* overlap build: processingDuration = Math.min(videoDuration, subtitlesDuration)
\* padding build: totalDuration = Math.max(videoDuration, subtitlesDuration)
processingDuration(build, videoDuration, subtitles) ==
    IF build = "overlap" THEN MathMin(videoDuration, subtitlesDuration(subtitles))
    ELSE MathMax(videoDuration, subtitlesDuration(subtitles))

\* a variant of keptSubtitle that keeps a cue that starts at the end of the window
keptSubtitleInclusive(sub, window) == LessEq(sub.start, window)

\* subtitles.filter(sub => sub.start < processingDuration)
keptSubtitle(sub, window) == Less(sub.start, window)

\* a variant of adjustedSubtitle that ends a cue a tenth of a second early when
\* it reaches the last three tenths of the window
adjustedSubtitleEarly(sub, window) ==
    IF Less(window, Plus(sub.end, ThreeTenths))
    THEN [sub EXCEPT !.end = Minus(MathMin(sub.end, window), Tenth),
                     !.duration = Minus(Minus(MathMin(sub.end, window), Tenth), sub.start)]
    ELSE sub

\* if (sub.end > processingDuration) { sub.end = processingDuration; sub.duration = ... }
adjustedSubtitle(sub, window) ==
    IF Less(window, sub.end)
    THEN [sub EXCEPT !.end = window, !.duration = Minus(window, sub.start)]
    ELSE sub

\* the subsequence of seq whose elements satisfy keptSubtitle
RECURSIVE filterSubtitles(_, _)
filterSubtitles(subtitles, window) ==
    IF subtitles = <<>> THEN <<>>
    ELSE LET rest == filterSubtitles(Tail(subtitles), window)
         IN  IF keptSubtitle(Head(subtitles), window) THEN <<Head(subtitles)>> \o rest
             ELSE rest

\* the filter and the forEach over what it kept, for the window processingDuration
reconciledSubtitles(subtitles, window) ==
    LET filteredSubtitles == filterSubtitles(subtitles, window)
    IN  [k \in 1..Len(filteredSubtitles) |-> adjustedSubtitle(filteredSubtitles[k], window)]

\* the cues generateSRT is given: filtered and adjusted by the overlap build,
\* all of them by the padding build
writtenSubtitles(build, videoDuration, subtitles) ==
    IF build = "overlap"
    THEN reconciledSubtitles(subtitles,
                             processingDuration(build, videoDuration, subtitles))
    ELSE subtitles

\* the decimal digits of the natural number n, the first digit first
RECURSIVE toString(_)
toString(n) == IF n < 10 THEN <<n>> ELSE Append(toString(n \div 10), n % 10)

\* digits.padStart(width, '0')
RECURSIVE padStart(_, _)
padStart(digits, width) ==
    IF Len(digits) >= width THEN digits ELSE padStart(<<0>> \o digits, width)

\* Math.floor(seconds) of a number that is not negative
Floor(seconds) == seconds[1] \div 256

\* Math.floor((seconds % 1) * 1000): the remainder is exact, the product is
\* rounded to a double
Milliseconds(seconds) ==
    LET frac == <<seconds[1] % 256, seconds[2], seconds[3]>>
    IN  Floor(Nearest(ExactTimes(10, ExactTimes(10, ExactTimes(10, frac)))))

\* formatTime(seconds): the fields of HH:MM:SS,mmm
formatTime(seconds) ==
    [hours |-> padStart(toString(Floor(seconds) \div 3600), 2),
     minutes |-> padStart(toString((Floor(seconds) % 3600) \div 60), 2),
     secs |-> padStart(toString(Floor(seconds) % 60), 2),
     ms |-> padStart(toString(Milliseconds(seconds)), 3)]

\* `${sub.id}\n${startTime} --> ${endTime}\n${sub.text}\n`: the lines of a block
Block(sub) ==
    << [line |-> "index", id |-> sub.id],
       [line |-> "time", start |-> formatTime(sub.start), end |-> formatTime(sub.end)],
       [line |-> "text", text |-> sub.text] >>

\* a variant of generateSRT that joins the blocks without a blank line
RECURSIVE generateSRTNoBlank(_)
generateSRTNoBlank(subtitles) ==
    IF subtitles = <<>> THEN <<>>
    ELSE Block(Head(subtitles)) \o generateSRTNoBlank(Tail(subtitles))

\* generateSRT(subtitles): subtitles.map(block).join('\n'), as lines
RECURSIVE generateSRT(_)
generateSRT(subtitles) ==
    IF subtitles = <<>> THEN <<>>
    ELSE IF Len(subtitles) = 1 THEN Block(Head(subtitles))
    ELSE Block(Head(subtitles)) \o << [line |-> "blank"] >>
         \o generateSRT(Tail(subtitles))

\* no '-t' among the encoder's arguments
NoLimit == <<-1, 0, 0>>
\* no progress reported yet
NotReported == -1
\* no encoder launched yet
NoEncode == [t |-> NoLimit, padding |-> Zero, launched |-> FALSE]

\* the encoder's arguments: '-t' limit and the duration of the black padding
\* concatenated behind the video (0: none)
ffmpegArgs(build, videoDuration, subtitles) ==
    IF build = "overlap"
    THEN [t |-> processingDuration(build, videoDuration, subtitles), padding |-> Zero,
          launched |-> TRUE]
    ELSE IF Less(videoDuration, subtitlesDuration(subtitles))
    THEN [t |-> NoLimit,
          padding |-> Minus(subtitlesDuration(subtitles), videoDuration),
          launched |-> TRUE]
    ELSE [t |-> NoLimit, padding |-> Zero, launched |-> TRUE]

----------------------------------------------------------------------------
(* The encoder's progress *)

\* the elapsed times parseFFmpegProgress reads from the encoder's stderr:
\* 0, 2.5, 5 and 9 s
Markers == {Zero, Number(640), Number(1280), Number(2304)}

\* a variant of EncodeProgress that bounds the quotient by 1.5 and does not
\* bound the sum
EncodeProgressUnbounded(currentTime, duration) ==
    IF ~Less(ExactTimes(2, currentTime), ExactTimes(3, duration)) THEN 115
    ELSE LET scaled == ExactPlus(ExactTimes(80, currentTime), duration)
         IN  55 + CHOOSE q \in 0..60 :
                     /\ LessEq(ExactTimes(2 * q, duration), scaled)
                     /\ Less(scaled, ExactTimes(2 * q + 2, duration))

\* Math.round(Math.min(95, 55 + Math.min(1, currentTime / duration) * 40)),
\* duration > 0: 55 + q for the largest q with q <= 40 * currentTime / duration
\* + 1/2. The quotient is taken as a real number: the rounding of the
\* division matters only next to a tie, and no marker is next to one.
EncodeProgress(currentTime, duration) ==
    IF ~Less(currentTime, duration) THEN 95
    ELSE LET scaled == ExactPlus(ExactTimes(80, currentTime), duration)
         IN  55 + CHOOSE q \in 0..40 :
                     /\ LessEq(ExactTimes(2 * q, duration), scaled)
                     /\ Less(scaled, ExactTimes(2 * q + 2, duration))

----------------------------------------------------------------------------
(* safeDeleteFile *)

\* the outcomes of the fs.unlink calls of one safeDeleteFile: TRUE is an error
UnlinkErrors == [1..maxRetries -> BOOLEAN]

RECURSIVE tryDelete(_, _, _)
\* a variant of tryDelete that calls fs.unlink without looking for the file
tryDeleteUnchecked(exists, errs, attempts) ==
    IF ~errs[attempts + 1]
    THEN [exists |-> FALSE, unlinks |-> attempts + 1, settled |-> "resolved"]
    ELSE IF attempts + 1 < maxRetries THEN tryDelete(exists, errs, attempts + 1)
    ELSE [exists |-> exists, unlinks |-> attempts + 1, settled |-> "resolved"]

\* tryDelete of safeDeleteFile, entered with the attempts made so far: the file
\* that is left, the number of fs.unlink calls, and how the promise is settled
\* (every branch that settles it calls resolve)
tryDelete(exists, errs, attempts) ==
    IF ~exists
    THEN [exists |-> FALSE, unlinks |-> attempts, settled |-> "resolved"]
    ELSE IF ~errs[attempts + 1]
    THEN [exists |-> FALSE, unlinks |-> attempts + 1, settled |-> "resolved"]
    ELSE IF attempts + 1 < maxRetries THEN tryDelete(exists, errs, attempts + 1)
    ELSE [exists |-> TRUE, unlinks |-> attempts + 1, settled |-> "resolved"]

safeDeleteFile(exists, errs) == tryDelete(exists, errs, 0)

\* whether path can be left on disk when safeDeleteFile(path) has resolved
Remains(path) == {safeDeleteFile(path \in files, errs).exists : errs \in UnlinkErrors}

----------------------------------------------------------------------------
(* Tasks *)

Tasks == 1..Len(tasks)

Cur(t) == Code(server, tasks[t].mode)[tasks[t].pc]

\* task t holds the thread and its next statement is op
AtOp(t, op) ==
    /\ running = t
    /\ tasks[t].pc > 0
    /\ ~tasks[t].wait
    /\ Cur(t).op = op

\* task t is suspended in statement op, and the event loop is idle
Awaiting(t, op) ==
    /\ running = 0
    /\ tasks[t].pc > 0
    /\ tasks[t].wait
    /\ Cur(t).op = op

scriptPath(t) == Upload("script", t, tasks[t].i)
videoPath(t) == Upload("video", t, tasks[t].i)
\* srtPath is null until the subtitle file is written
srtPath(t) == IF tasks[t].stamp >= 0 THEN Stamped("srt", tasks[t].stamp)
              ELSE <<"null", 0, 0>>
palettePath(t) == Stamped("palette", tasks[t].stamp)
previewPath(t) == Stamped("preview", tasks[t].stamp)
outputPath(t) == Stamped("captioned", tasks[t].stamp)

\* the task after its next statement, with event ev logged
Next1(task, ev) == [task EXCEPT !.pc = @ + 1, !.wait = FALSE, !.log = Append(@, ev)]

\* the task suspended in its statement (await), with event ev logged
Suspended(task, ev) == [task EXCEPT !.wait = TRUE, !.log = Append(@, ev)]

\* the task after a throw (or a reject) inside the try block
Thrown(task, msg, ev) ==
    [task EXCEPT !.pc = CatchPc(server, task.mode), !.wait = FALSE, !.err = msg,
                 !.log = Append(@, ev)]

\* the task when its callbacks are over: its locals are gone
Ended(task, ev) ==
    [task EXCEPT !.pc = 0, !.wait = FALSE, !.i = 0, !.results = <<>>, !.stamp = -1,
                 !.code = 0, !.err = "", !.dur = Zero, !.options = NoOptions,
                 !.script = <<>>, !.subtitles = <<>>, !.srt = <<>>,
                 !.srtContent = <<>>,
                 !.enc = NoEncode, !.log = Append(@, ev)]

\* the environment after an event that is a fault, or is none
Fault(isFault) == IF isFault THEN [env EXCEPT !.faults = @ - 1] ELSE env

----------------------------------------------------------------------------
(* The request handler of POST /api/caption *)

\* what a request carries: both files, the script only, or no multipart body
Uploads == {"both", "script", "nomultipart"}

\* the request arrives: multer has stored its files, the handler starts and
\* takes jobId = Date.now().toString()
PostCaption(mode, n, upload) ==
    /\ running = 0
    /\ env.requests > 0
    /\ IF mode = "batch" THEN server = "overlap" /\ n <= env.pairs
       ELSE n = 1 /\ env.pairs = 0
    /\ LET t == Len(tasks) + 1
           stored == {Upload("script", t, i) : i \in 0..(n - 1)}
                     \cup {Upload("video", t, i) : i \in 0..(n - 2)}
                     \cup {Upload("video", t, n - 1) : x \in {upload} \ {"script"}}
       IN  /\ tasks' = Append(tasks,
                 [jobId |-> now, mode |-> mode, n |-> n, i |-> 0, results |-> <<>>,
                  pc |-> 1, wait |-> FALSE, upload |-> upload, http |-> 0,
                  stamp |-> -1, code |-> 0, err |-> "", dur |-> Zero,
                  options |-> NoOptions, script |-> <<>>, subtitles |-> <<>>,
                  srt |-> <<>>, srtContent |-> <<>>, enc |-> NoEncode,
                  reported |-> NotReported,
                  log |-> <<>>])
           /\ running' = t
           /\ files' = IF upload = "nomultipart" THEN files ELSE files \cup stored
    /\ env' = [env EXCEPT !.requests = @ - 1]
    /\ UNCHANGED <<server, now, processingProgress, processingResults, timers>>

\* updateProgress(p, s), by the handler, the batch loop or processSingleVideo
Progress(t) ==
    /\ AtOp(t, "progress")
    /\ LET c == Cur(t)
           e == IF c.inner THEN Reported(tasks[t], c.p, c.s)
                ELSE [progress |-> c.p, status |-> c.s]
       IN  /\ processingProgress' = updateProgress(tasks[t].jobId, e.progress, e.status)
           /\ tasks' = [tasks EXCEPT ![t].pc = @ + 1, ![t].reported = e.progress]
    /\ UNCHANGED <<client, server, now, processingResults, running, files, timers, env>>

\* the files of the request are looked up: both there, one missing (400), or
\* req.files undefined, a TypeError the handler's catch answers with 500
Validate(t) ==
    /\ AtOp(t, "validate")
    /\ \/ /\ tasks[t].upload = "both"
          /\ tasks' = [tasks EXCEPT ![t].pc = @ + 1]
          /\ UNCHANGED <<processingProgress, running>>
       \/ /\ tasks[t].upload = "script"
          /\ tasks' = [tasks EXCEPT ![t] = Ended([@ EXCEPT !.http = 400], "400")]
          /\ running' = 0
          /\ UNCHANGED processingProgress
       \/ /\ tasks[t].upload = "nomultipart"
          /\ processingProgress' = Delete(processingProgress, tasks[t].jobId)
          /\ tasks' = [tasks EXCEPT ![t] = Ended([@ EXCEPT !.http = 500], "500")]
          /\ running' = 0
    /\ UNCHANGED <<client, server, now, processingResults, files, timers, env>>

\* res.json({ success: true, jobId, message })
Respond(t) ==
    /\ AtOp(t, "respond")
    /\ tasks' = [tasks EXCEPT ![t] = [Next1(@, "respond") EXCEPT !.http = 200]]
    /\ UNCHANGED <<client, server, now, processingProgress, processingResults, running, files,
                   timers, env>>

----------------------------------------------------------------------------
(* processSingleVideo / processVideoInBackground: parse and probe *)

EmptyScript == "No valid subtitles found in script"

\* processOptions, readFileSync, parseScript, and the throw when no cue is left
Parse(t, words, options) ==
    /\ AtOp(t, "parse")
    /\ words \in (IF env.inputs THEN Scripts ELSE DefaultScripts)
    /\ options \in (IF env.inputs THEN RequestOptions ELSE DefaultRequestOptions)
    /\ LET subtitles == parseScript(words, processOptions(options))
       IN  tasks' = [tasks EXCEPT ![t] =
                        IF Len(subtitles) = 0 THEN Thrown(@, EmptyScript, "parse:fail")
                        ELSE [Next1(@, "parse:ok") EXCEPT
                                 !.options = processOptions(options),
                                 !.script = words,
                                 !.subtitles = subtitles]]
    /\ UNCHANGED <<client, server, now, processingProgress, processingResults, running, files,
                   timers, env>>

\* whether the promise executor of the probe can read ffprobePath: the overlap
\* build declares it there (line 450), the padding build reads it undeclared
\* (line 1183), which throws a ReferenceError and rejects the promise
ffprobePathDeclared(build) == build = "overlap"

\* the probe is spawned and awaited
ProbeSpawn(t) ==
    /\ AtOp(t, "probe")
    /\ IF ffprobePathDeclared(server)
       THEN /\ tasks' = [tasks EXCEPT ![t] = Suspended(@, "probe")]
            /\ running' = 0
       ELSE /\ tasks' = [tasks EXCEPT ![t] =
                            Thrown(@, "ffprobePath is not defined", "probe:fail")]
            /\ UNCHANGED running
    /\ UNCHANGED <<client, server, now, processingProgress, processingResults, files, timers,
                   env>>

\* how the probe can end: exit 0 with usable output, exit non-zero, no video
\* stream, duration/width/height missing, unparsable output, spawn error
ProbeOutcomes == {"ok", "exit", "nostream", "noprops", "badjson", "error"}

ProbeMessage(outcome) ==
    CASE outcome = "exit" -> "FFprobe failed: <stderr>"
      [] outcome = "nostream" -> "No video stream found"
      [] outcome = "noprops" -> "Could not extract video properties"
      [] outcome = "badjson" -> "Failed to parse video info: <message>"
      [] OTHER -> "spawn ffprobe <errno>"

\* ffprobe.on('close') / ffprobe.on('error')
ProbeClose(t, outcome, dur) ==
    /\ Awaiting(t, "probe")
    /\ dur \in (IF outcome # "ok" THEN {Zero}
                ELSE IF env.inputs THEN VideoDurations ELSE DefaultVideoDurations)
    /\ outcome # "ok" => env.faults > 0
    /\ tasks' = [tasks EXCEPT ![t] =
                    IF outcome = "ok" THEN [Next1(@, "probe:ok") EXCEPT !.dur = dur]
                    ELSE Thrown(@, ProbeMessage(outcome), "probe:fail")]
    /\ running' = t
    /\ env' = Fault(outcome # "ok")
    /\ UNCHANGED <<client, server, now, processingProgress, processingResults, files, timers>>

\* generateSRT and writeFileSync(srtPath), srtPath = `script-${Date.now()}.srt`;
\* the names of the output, the preview and the palette are taken in the same
\* callback
WriteSrt(t) ==
    /\ AtOp(t, "srt")
    /\ \E filteredSubtitles \in {writtenSubtitles(server, tasks[t].dur,
                                                  tasks[t].subtitles)} :
          tasks' = [tasks EXCEPT ![t] =
                       [Next1(@, "srt:ok") EXCEPT
                           !.stamp = now,
                           !.srt = filteredSubtitles,
                           !.srtContent = generateSRT(filteredSubtitles)]]
    /\ files' = files \cup {Stamped("srt", now)}
    /\ UNCHANGED <<client, server, now, processingProgress, processingResults, running, timers,
                   env>>

----------------------------------------------------------------------------
(* The preview: palette extraction, palette-indexed encode, palette removal *)

\* how a spawned ffmpeg can end: exit 0, exit non-zero, spawn error
ExitOutcomes == {"ok", "exit", "error"}

PaletteSpawn(t) ==
    /\ AtOp(t, "palette")
    /\ tasks' = [tasks EXCEPT ![t] = Suspended(@, "palette")]
    /\ running' = 0
    /\ UNCHANGED <<client, server, now, processingProgress, processingResults, files, timers,
                   env>>

\* paletteProcess.on('close') / paletteProcess.on('error')
PaletteClose(t, outcome) ==
    /\ Awaiting(t, "palette")
    /\ outcome # "ok" => env.faults > 0
    /\ tasks' = [tasks EXCEPT ![t] =
                    IF outcome = "ok" THEN Next1(@, "palette:ok")
                    ELSE Thrown(@, IF outcome = "exit" THEN "Failed to generate palette"
                                   ELSE "spawn ffmpeg <errno>", "palette:fail")]
    /\ files' = IF outcome = "ok" THEN files \cup {palettePath(t)} ELSE files
    /\ running' = t
    /\ env' = Fault(outcome # "ok")
    /\ UNCHANGED <<client, server, now, processingProgress, processingResults, timers>>

\* the palette-indexed encode is spawned in the close handler of the palette
GifSpawn(t) ==
    /\ AtOp(t, "gif")
    /\ tasks' = [tasks EXCEPT ![t] = Suspended(@, "gif")]
    /\ running' = 0
    /\ UNCHANGED <<client, server, now, processingProgress, processingResults, files, timers,
                   env>>

\* gifProcess.on('close'), which goes on to remove the palette and only then
\* looks at the exit code, / gifProcess.on('error'), which rejects at once
GifClose(t, outcome) ==
    /\ Awaiting(t, "gif")
    /\ outcome # "ok" => env.faults > 0
    /\ tasks' = [tasks EXCEPT ![t] =
                    IF outcome = "error"
                    THEN Thrown(@, "spawn ffmpeg <errno>", "gif:fail")
                    ELSE [Next1(@, IF outcome = "ok" THEN "gif:ok" ELSE "gif:fail")
                             EXCEPT !.code = IF outcome = "ok" THEN 0 ELSE 1]]
    /\ files' = IF outcome = "ok" THEN files \cup {previewPath(t)} ELSE files
    /\ running' = t
    /\ env' = Fault(outcome # "ok")
    /\ UNCHANGED <<client, server, now, processingProgress, processingResults, timers>>

\* the preview promise settles on the exit code of the palette-indexed encode
PreviewSettled(task) ==
    IF task.code # 0 THEN Thrown(task, "Failed to create preview", "preview:fail")
    ELSE Next1(task, "preview:ok")

\* await safeDeleteFile(palettePath): resolved at once when the file is not there
RemovePalette(t) ==
    /\ AtOp(t, "rmpalette")
    /\ IF palettePath(t) \in files
       THEN /\ tasks' = [tasks EXCEPT ![t] = Suspended(@, "rmpalette")]
            /\ running' = 0
       ELSE /\ tasks' = [tasks EXCEPT ![t] = PreviewSettled(@)]
            /\ UNCHANGED running
    /\ UNCHANGED <<client, server, now, processingProgress, processingResults, files, timers,
                   env>>

\* safeDeleteFile(palettePath) resolves
PaletteRemoved(t, remains) ==
    /\ Awaiting(t, "rmpalette")
    /\ remains \in Remains(palettePath(t))
    /\ remains => env.faults > 0
    /\ files' = IF remains THEN files ELSE files \ {palettePath(t)}
    /\ tasks' = [tasks EXCEPT ![t] = PreviewSettled(@)]
    /\ running' = t
    /\ env' = Fault(remains)
    /\ UNCHANGED <<client, server, now, processingProgress, processingResults, timers>>

----------------------------------------------------------------------------
(* The final encode *)

\* spawn(ffmpegPath, ffmpegArgs)
EncodeSpawn(t) ==
    /\ AtOp(t, "encode")
    /\ tasks' = [tasks EXCEPT ![t] =
                    [Suspended(@, "encode") EXCEPT
                        !.enc = ffmpegArgs(server, tasks[t].dur, tasks[t].subtitles)]]
    /\ running' = 0
    /\ UNCHANGED <<client, server, now, processingProgress, processingResults, files, timers,
                   env>>

\* ffmpegProcess.stderr.on('data') with a line that holds a time marker
EncodeData(t, currentTime) ==
    /\ Awaiting(t, "encode")
    /\ LET window == processingDuration(server, tasks[t].dur, tasks[t].subtitles)
           e == Reported(tasks[t], EncodeProgress(currentTime, window),
                         "Processing video with captions...")
       IN  /\ processingProgress' = updateProgress(tasks[t].jobId, e.progress, e.status)
           /\ tasks' = [tasks EXCEPT ![t].reported = e.progress]
    /\ UNCHANGED <<client, server, now, processingResults, running, files, timers, env>>

\* ffmpegProcess.on('close') / ffmpegProcess.on('error')
EncodeClose(t, outcome) ==
    /\ Awaiting(t, "encode")
    /\ outcome # "ok" => env.faults > 0
    /\ tasks' = [tasks EXCEPT ![t] =
                    IF outcome = "ok" THEN Next1(@, "encode:ok")
                    ELSE Thrown(@, IF outcome = "exit" THEN "Failed to process video: <stderr>"
                                   ELSE IF server = "padding"
                                   THEN "FFmpeg process error: spawn ffmpeg <errno>"
                                   ELSE "spawn ffmpeg <errno>", "encode:fail")]
    /\ files' = IF outcome = "ok" THEN files \cup {outputPath(t)} ELSE files
    /\ running' = t
    /\ env' = Fault(outcome # "ok")
    /\ UNCHANGED <<client, server, now, processingProgress, processingResults, timers>>

----------------------------------------------------------------------------
(* Cleanup: await Promise.all of safeDeleteFile on script, video, subtitles *)

Cleanup(t) ==
    /\ AtOp(t, "cleanup")
    /\ IF {scriptPath(t), videoPath(t), srtPath(t)} \cap files # {}
       THEN /\ tasks' = [tasks EXCEPT ![t] = Suspended(@, "cleanup")]
            /\ running' = 0
       ELSE /\ tasks' = [tasks EXCEPT ![t] =
                            Next1([@ EXCEPT !.log = Append(@, "cleanup")], "cleanup:done")]
            /\ UNCHANGED running
    /\ UNCHANGED <<client, server, now, processingProgress, processingResults, files, timers,
                   env>>

\* a variant of CleanupSettled in which a file that is left rejects the promise
CleanupSettledOrRejected(task, left) ==
    IF left = {} THEN Next1(task, "cleanup:done")
    ELSE Thrown(task, "EBUSY: resource busy or locked", "cleanup:fail")

\* the task when Promise.all has settled: the three promises of safeDeleteFile
\* resolve whatever they left on disk
CleanupSettled(task, left) == Next1(task, "cleanup:done")

\* the three promises have resolved
CleanupDone(t, scriptRemains, videoRemains, srtRemains) ==
    /\ Awaiting(t, "cleanup")
    /\ scriptRemains \in Remains(scriptPath(t))
    /\ videoRemains \in Remains(videoPath(t))
    /\ srtRemains \in Remains(srtPath(t))
    /\ LET left == {scriptPath(t) : x \in {scriptRemains} \cap {TRUE}}
                   \cup {videoPath(t) : x \in {videoRemains} \cap {TRUE}}
                   \cup {srtPath(t) : x \in {srtRemains} \cap {TRUE}}
       IN  /\ Cardinality(left) <= env.faults
           /\ files' = (files \ {scriptPath(t), videoPath(t), srtPath(t)}) \cup left
           /\ env' = [env EXCEPT !.faults = @ - Cardinality(left)]
    /\ tasks' = [tasks EXCEPT ![t] =
                    CleanupSettled(@, {scriptPath(t) : x \in {scriptRemains} \cap {TRUE}}
                                      \cup {videoPath(t) : x \in {videoRemains} \cap {TRUE}}
                                      \cup {srtPath(t) : x \in {srtRemains} \cap {TRUE}})]
    /\ running' = t
    /\ UNCHANGED <<client, server, now, processingProgress, processingResults, timers>>

----------------------------------------------------------------------------
(* The end of the background task: result, error, retirement *)

\* the payload of a job that succeeded
ResultPayload(t) ==
    [success |-> TRUE,
     durationSeconds |-> processingDuration(server, tasks[t].dur, tasks[t].subtitles),
     subtitlesCount |-> Len(IF server = "overlap" THEN tasks[t].srt ELSE tasks[t].subtitles),
     previewUrl |-> previewPath(t), downloadUrl |-> outputPath(t),
     subtitles |-> IF server = "overlap" THEN tasks[t].srt ELSE tasks[t].subtitles]

\* a variant of ErrorPayload that reports the failure as a success
ErrorPayloadAsSuccess(t) ==
    [success |-> TRUE, error |-> "Video processing failed", details |-> tasks[t].err]

\* the payload of a job that failed
ErrorPayload(t) ==
    [success |-> FALSE,
     error |-> IF server = "padding"
               THEN "Video processing failed. Please check your files and try again."
               ELSE "Video processing failed",
     details |-> tasks[t].err]

\* global.processingResults[jobId] = result
Store(t) ==
    /\ AtOp(t, "store")
    /\ processingResults' =
          Put(processingResults, tasks[t].jobId,
              IF server = "padding" THEN [jobId |-> tasks[t].jobId] @@ ResultPayload(t)
              ELSE ResultPayload(t))
    /\ tasks' = [tasks EXCEPT ![t] = Next1(@, "store")]
    /\ UNCHANGED <<client, server, now, processingProgress, running, files, timers, env>>

\* global.processingResults[jobId] = { success: false, error, details }
StoreError(t) ==
    /\ AtOp(t, "storeError")
    /\ processingResults' = Put(processingResults, tasks[t].jobId, ErrorPayload(t))
    /\ tasks' = [tasks EXCEPT ![t] = Next1(@, "storeError")]
    /\ UNCHANGED <<client, server, now, processingProgress, running, files, timers, env>>

\* setTimeout(() => { delete processingProgress[jobId]; delete processingResults[jobId] }, ms):
\* the last statement of the background task
SetTimer(t) ==
    /\ AtOp(t, "timer")
    /\ timers' = timers \cup {[task |-> t, jobId |-> tasks[t].jobId, due |-> now + Cur(t).p]}
    /\ tasks' = [tasks EXCEPT ![t] = Ended(@, "timer")]
    /\ running' = 0
    /\ UNCHANGED <<client, server, now, processingProgress, processingResults, files, env>>

\* the page is about to act: the answer to its POST is on its way, a tick of its
\* interval would find progress >= 100, or it waits for the answer of
\* GET /api/result
ClientBusy ==
    \/ client.poll = "fetch"
    \/ /\ client.poll = "none"
       /\ client.task > 0
       /\ tasks[client.task].http # 0
    \/ /\ client.poll = "on"
       /\ GetProgress(tasks[client.task].jobId).progress >= 100

\* the earliest timer fires: time has reached its due time (minutes do not
\* pass while the page waits for a poll half a second away or for an answer)
Retire(tm) ==
    /\ running = 0
    /\ tm \in timers
    /\ \A other \in timers : tm.due <= other.due
    /\ ~ClientBusy
    /\ now' = Max(now, tm.due)
    /\ processingProgress' = Delete(processingProgress, tm.jobId)
    /\ processingResults' = Delete(processingResults, tm.jobId)
    /\ timers' = timers \ {tm}
    /\ UNCHANGED <<client, server, tasks, running, files, env>>

----------------------------------------------------------------------------
(* processBatchInBackground: the loop over the pairs *)

\* for (i < totalPairs): updateProgress(Math.round(5 + (i / totalPairs) * 90), ...)
\* and the call of processSingleVideo (srtPath = null); behind the last pair the
\* loop is left
Pair(t) ==
    /\ AtOp(t, "pair")
    /\ LET task == tasks[t]
           code == Code(server, task.mode)
       IN  IF task.i < task.n
           THEN /\ processingProgress' =
                      updateProgress(task.jobId, Round(5 * task.n + 90 * task.i, task.n),
                          "Processing pair " \o ToString(task.i + 1) \o "/"
                              \o ToString(task.n) \o "...")
                /\ tasks' = [tasks EXCEPT ![t] =
                                [Next1(@, "pair") EXCEPT
                                    !.reported = Round(5 * task.n + 90 * task.i, task.n),
                                    !.stamp = -1, !.dur = Zero, !.options = NoOptions,
                                    !.script = <<>>, !.subtitles = <<>>, !.srt = <<>>,
                                    !.srtContent = <<>>,
                                    !.enc = NoEncode]]
           ELSE /\ tasks' = [tasks EXCEPT ![t].pc = IndexOf(code, "pairFail") + 1]
                /\ UNCHANGED processingProgress
    /\ UNCHANGED <<client, server, now, processingResults, running, files, timers, env>>

\* results.push({ index: i, ...result }) and i++
PairOk(t) ==
    /\ AtOp(t, "pairOk")
    /\ tasks' = [tasks EXCEPT ![t] =
                    [@ EXCEPT !.results = Append(@, [index |-> tasks[t].i] @@ ResultPayload(t)),
                              !.i = @ + 1,
                              !.pc = IndexOf(Code(server, tasks[t].mode), "pair"),
                              !.log = Append(@, "pairOk")]]
    /\ UNCHANGED <<client, server, now, processingProgress, processingResults, running, files,
                   timers, env>>

\* a variant of PairFail that leaves the loop at the first pair that fails
PairFailLeavesLoop(t) ==
    /\ AtOp(t, "pairFail")
    /\ tasks' = [tasks EXCEPT ![t] =
                    [@ EXCEPT !.results = Append(@, [index |-> tasks[t].i, success |-> FALSE,
                                                     error |-> tasks[t].err]),
                              !.i = @ + 1,
                              !.pc = IndexOf(Code(server, tasks[t].mode), "pairFail") + 1,
                              !.log = Append(@, "pairFail")]]
    /\ UNCHANGED <<client, server, now, processingProgress, processingResults, running, files,
                   timers, env>>

\* the catch inside the loop: results.push({ index: i, success: false, error }) and i++
PairFail(t) ==
    /\ AtOp(t, "pairFail")
    /\ tasks' = [tasks EXCEPT ![t] =
                    [@ EXCEPT !.results = Append(@, [index |-> tasks[t].i, success |-> FALSE,
                                                     error |-> tasks[t].err]),
                              !.i = @ + 1,
                              !.pc = IndexOf(Code(server, tasks[t].mode), "pair"),
                              !.log = Append(@, "pairFail")]]
    /\ UNCHANGED <<client, server, now, processingProgress, processingResults, running, files,
                   timers, env>>

\* the number of records of results with the given success
CountOf(results, success) ==
    Cardinality({k \in 1..Len(results) : results[k].success = success})

\* global.processingResults[jobId] = { success: true, batchMode: true, ... }
StoreBatch(t) ==
    /\ AtOp(t, "storeBatch")
    /\ processingResults' = Put(processingResults, tasks[t].jobId,
          [success |-> TRUE, batchMode |-> TRUE, totalPairs |-> tasks[t].n,
           results |-> tasks[t].results,
           successCount |-> CountOf(tasks[t].results, TRUE),
           failureCount |-> CountOf(tasks[t].results, FALSE)])
    /\ tasks' = [tasks EXCEPT ![t] = Next1(@, "storeBatch")]
    /\ UNCHANGED <<client, server, now, processingProgress, running, files, timers, env>>

----------------------------------------------------------------------------
(* The other requests, and time *)

\* the progress values a POST /api/test-progress request carries
TestValues == {0, 100}

\* POST /api/test-progress/:jobId
TestProgress(jobId, progress) ==
    /\ running = 0
    /\ env.tests > 0
    /\ processingProgress' = updateProgress(jobId, progress, "test")
    /\ env' = [env EXCEPT !.tests = @ - 1]
    /\ UNCHANGED <<client, server, now, processingResults, tasks, running, files, timers>>

\* a millisecond passes while the event loop is idle
Tick ==
    /\ running = 0
    /\ env.ticks > 0
    /\ now' = now + 1
    /\ env' = [env EXCEPT !.ticks = @ - 1]
    /\ UNCHANGED <<client, server, processingProgress, processingResults, tasks, running, files,
                   timers>>

----------------------------------------------------------------------------
(* The page: handleProcess of src/src/App.tsx *)

\* handleProcess: setCurrentStep('processing') and the POST /api/caption of a
\* script and a video, which arrives at the server
HandleProcess ==
    /\ env.client
    /\ client.step = "upload"
    /\ client.task = 0
    /\ PostCaption("single", 1, "both")
    /\ client' = [client EXCEPT !.step = "processing", !.task = Len(tasks) + 1]

\* the answer to the POST arrives: with a job id the polling starts (setTimeout,
\* setInterval), otherwise the catch shows the error on the upload step
ClientResponse ==
    /\ client.step = "processing"
    /\ client.poll = "none"
    /\ client.task > 0
    /\ tasks[client.task].http # 0
    /\ client' = IF tasks[client.task].http = 200
                 THEN [client EXCEPT !.poll = "on"]
                 ELSE [client EXCEPT !.step = "upload",
                                     !.error = "Video processing failed"]
    /\ UNCHANGED <<server, now, processingProgress, processingResults, tasks, running,
                   files, timers, env>>

\* a tick of the interval: GET /api/progress/:jobId; at progress >= 100 the
\* interval is cleared and the result is asked for
Poll ==
    /\ running = 0
    /\ client.poll = "on"
    /\ client' = IF GetProgress(tasks[client.task].jobId).progress >= 100
                 THEN [client EXCEPT !.poll = "fetch"]
                 ELSE client
    /\ UNCHANGED <<server, now, processingProgress, processingResults, tasks, running,
                   files, timers, env>>

\* GET /api/result/:jobId: an answer that is ok shows the results, any other
\* answer the upload step with an error
FetchResult ==
    /\ running = 0
    /\ client.poll = "fetch"
    /\ client' = IF GetResult(tasks[client.task].jobId).code = 200
                 THEN [client EXCEPT !.poll = "off", !.step = "results"]
                 ELSE [client EXCEPT !.poll = "off", !.step = "upload",
                          !.error = "Processing completed but failed to fetch results"]
    /\ UNCHANGED <<server, now, processingProgress, processingResults, tasks, running,
                   files, timers, env>>

\* setTimeout(() => clearInterval(progressInterval), 300000)
Fallback ==
    /\ client.poll = "on"
    /\ ~ClientBusy
    /\ client' = [client EXCEPT !.poll = "off"]
    /\ UNCHANGED <<server, now, processingProgress, processingResults, tasks, running,
                   files, timers, env>>

----------------------------------------------------------------------------
(* The specification *)

\* the page before handleProcess: the upload step, no request sent, no interval
NoClient == [step |-> "upload", task |-> 0, poll |-> "none", error |-> ""]

Init ==
    /\ server \in {"overlap", "padding"}
    /\ env \in Scenarios
    /\ now = 0
    /\ processingProgress = <<>>
    /\ processingResults = <<>>
    /\ tasks = <<>>
    /\ running = 0
    /\ files = {}
    /\ timers = {}
    /\ client = NoClient

\* the job ids a request can name: those of the requests so far, and the clock
KnownIds == {tasks[t].jobId : t \in Tasks} \cup {now}

Next ==
    \/ \E mode \in {"single", "batch"}, n \in 1..MaxPairs, upload \in Uploads :
          PostCaption(mode, n, upload) /\ ~env.client /\ UNCHANGED client
    \/ \E t \in Tasks : Progress(t)
    \/ \E t \in Tasks : Validate(t)
    \/ \E t \in Tasks : Respond(t)
    \/ \E t \in Tasks, words \in Scripts, options \in RequestOptions :
          Parse(t, words, options)
    \/ \E t \in Tasks : ProbeSpawn(t)
    \/ \E t \in Tasks, outcome \in ProbeOutcomes, dur \in VideoDurations \cup {Zero} :
          ProbeClose(t, outcome, dur)
    \/ \E t \in Tasks : WriteSrt(t)
    \/ \E t \in Tasks : PaletteSpawn(t)
    \/ \E t \in Tasks, outcome \in ExitOutcomes : PaletteClose(t, outcome)
    \/ \E t \in Tasks : GifSpawn(t)
    \/ \E t \in Tasks, outcome \in ExitOutcomes : GifClose(t, outcome)
    \/ \E t \in Tasks : RemovePalette(t)
    \/ \E t \in Tasks, remains \in BOOLEAN : PaletteRemoved(t, remains)
    \/ \E t \in Tasks : EncodeSpawn(t)
    \/ \E t \in Tasks, currentTime \in Markers : EncodeData(t, currentTime)
    \/ \E t \in Tasks, outcome \in ExitOutcomes : EncodeClose(t, outcome)
    \/ \E t \in Tasks : Cleanup(t)
    \/ \E t \in Tasks, a, b, c \in BOOLEAN : CleanupDone(t, a, b, c)
    \/ \E t \in Tasks : Store(t)
    \/ \E t \in Tasks : StoreError(t)
    \/ \E t \in Tasks : SetTimer(t)
    \/ \E t \in Tasks : Pair(t)
    \/ \E t \in Tasks : PairOk(t)
    \/ \E t \in Tasks : PairFail(t)
    \/ \E t \in Tasks : StoreBatch(t)
    \/ \E tm \in timers : Retire(tm)
    \/ \E jobId \in KnownIds, progress \in TestValues : TestProgress(jobId, progress)
    \/ Tick
    \/ HandleProcess
    \/ ClientResponse
    \/ Poll
    \/ FetchResult
    \/ Fallback

Spec == Init /\ [][Next]_vars

\* a launched process of task t exits, with whatever code, or fails to start
ProcessExits(t) ==
    /\ t \in Tasks
    /\ \/ \E outcome \in ProbeOutcomes, dur \in VideoDurations \cup {Zero} :
             ProbeClose(t, outcome, dur)
       \/ \E outcome \in ExitOutcomes : PaletteClose(t, outcome)
       \/ \E outcome \in ExitOutcomes : GifClose(t, outcome)
       \/ \E outcome \in ExitOutcomes : EncodeClose(t, outcome)

\* what the event loop does by itself: it runs the callback that holds the
\* thread to its next await, it delivers the completions of fs.unlink, and it
\* fires the timers that are due
EventLoop ==
    \/ \E t \in Tasks :
          \/ Progress(t) \/ Validate(t) \/ Respond(t)
          \/ \E words \in Scripts, options \in RequestOptions : Parse(t, words, options)
          \/ ProbeSpawn(t) \/ WriteSrt(t) \/ PaletteSpawn(t) \/ GifSpawn(t)
          \/ RemovePalette(t) \/ EncodeSpawn(t) \/ Cleanup(t)
          \/ \E remains \in BOOLEAN : PaletteRemoved(t, remains)
          \/ \E a, b, c \in BOOLEAN : CleanupDone(t, a, b, c)
          \/ Store(t) \/ StoreError(t) \/ SetTimer(t)
          \/ Pair(t) \/ PairOk(t) \/ PairFail(t) \/ StoreBatch(t)
    \/ \E tm \in timers : Retire(tm)

\* what the page does by itself once handleProcess has been called: the answers
\* of its requests arrive and its timers fire
Page == ClientResponse \/ Poll \/ FetchResult \/ Fallback

\* the runs in which termination is checked: those of a single request, and
\* concurrent requests with processes that exit with code 0
FairScenarios ==
    {s \in Scenarios : s.requests = 1}
    \cup {[s EXCEPT !.faults = 0] : s \in {s \in Scenarios : s.requests > 1}}

\* Spec over FairScenarios, with an event loop that does not halt and with
\* processes that exit
FairSpec ==
    /\ server \in {"overlap", "padding"}
    /\ env \in FairScenarios
    /\ now = 0
    /\ processingProgress = <<>>
    /\ processingResults = <<>>
    /\ tasks = <<>>
    /\ running = 0
    /\ files = {}
    /\ timers = {}
    /\ client = NoClient
    /\ [][Next]_vars
    /\ WF_vars(EventLoop)
    /\ WF_vars(Page)
    /\ \A t \in 1..MaxTasks : WF_vars(ProcessExits(t))

----------------------------------------------------------------------------
(* Properties: what a task's log and the registry show *)

\* the events task t has logged
Events(t) == {tasks[t].log[k] : k \in 1..Len(tasks[t].log)}

\* the events of a stage that failed
Failures ==
    {"parse:fail", "probe:fail", "palette:fail", "gif:fail", "preview:fail", "encode:fail"}

\* the events of a payload stored in processingResults
Stores == {"store", "storeError", "storeBatch"}

\* how many events of log are in evs
CountIn(log, evs) == Cardinality({k \in 1..Len(log) : log[k] \in evs})

\* this step appends event ev to the log of task t
Logs(t, ev) == tasks'[t].log = Append(tasks[t].log, ev)

\* event ev is in log before position k, in the same pair of a batch
Before(log, k, ev) ==
    \E j \in 1..(k - 1) : log[j] = ev /\ \A m \in j..k : log[m] # "pair"

\* C1: for every job, the progress values its task writes to the registry never
\* decrease, on every path (success, failure of any stage, any sequence of
\* elapsed-time markers of the encoder).
C1_ProgressNonDecreasing ==
    [][\A t \in Tasks : tasks'[t].reported >= tasks[t].reported]_vars

\* C2 (as stated): every background task that ends has stored exactly one
\* payload under its job id, with success = true if and only if no stage
\* failed, and otherwise with success = false, a message and the detail of the
\* failure; a task that was answered 200 never ends without a payload.
C2_OnePayloadPerTask ==
    [][\A t \in Tasks :
          /\ (tasks'[t].pc = 0 /\ tasks'[t].http = 200)
                => CountIn(tasks'[t].log, Stores) = 1
          /\ \A ev \in Stores : Logs(t, ev) =>
                LET payload == processingResults'[tasks[t].jobId]
                    failed == Events(t) \cap Failures # {}
                IN  /\ payload.success = ~failed
                    /\ failed => /\ payload.error # ""
                                 /\ payload.details = tasks[t].err
                                 /\ payload.details # ""]_vars

\* C2 (amended): every background task that ends has stored exactly one payload
\* under its job id. The payload of a single-video task has success = true if
\* and only if no stage failed, and otherwise success = false, a message and
\* the detail of the failure. The payload of a batch task always has
\* success = true; it holds one record per pair, and its failureCount is
\* positive if and only if a stage of some pair failed.
C2_OnePayloadPerTaskByMode ==
    [][\A t \in Tasks :
          /\ (tasks'[t].pc = 0 /\ tasks'[t].http = 200)
                => CountIn(tasks'[t].log, Stores) = 1
          /\ \A ev \in Stores : Logs(t, ev) =>
                LET payload == processingResults'[tasks[t].jobId]
                    failed == Events(t) \cap Failures # {}
                IN  IF tasks[t].mode = "single"
                    THEN /\ ev # "storeBatch"
                         /\ payload.success = ~failed
                         /\ failed => /\ payload.error # ""
                                      /\ payload.details = tasks[t].err
                                      /\ payload.details # ""
                    ELSE /\ ev = "storeBatch"
                         /\ payload.success
                         /\ Len(payload.results) = tasks[t].n
                         /\ payload.successCount + payload.failureCount = tasks[t].n
                         /\ (payload.failureCount > 0) = failed
                         /\ \A k \in 1..Len(payload.results) :
                               ~payload.results[k].success
                                  => payload.results[k].error # ""]_vars

\* a single-video job has failed in its encoder and has ended with its error stored
C2_Witness ==
    \E t \in Tasks :
        /\ tasks[t].mode = "single"
        /\ tasks[t].pc = 0
        /\ "encode:fail" \in Events(t)
        /\ "storeError" \in Events(t)
        /\ tasks[t].jobId \in DOMAIN processingResults
        /\ ~processingResults[tasks[t].jobId].success

\* C3: for every accepted submission the progress entry is in the registry when
\* the job id is returned and before the background task runs, and it is there
\* for as long as the job is running.
C3_EntryPresentWhileRunning ==
    \A t \in Tasks :
        (tasks[t].http = 200 /\ tasks[t].pc > 0)
            => tasks[t].jobId \in DOMAIN processingProgress

Requires(ev) ==
    CASE ev \in {"probe", "probe:ok", "probe:fail"} -> {"parse:ok"}
      [] ev = "srt:ok" -> {"parse:ok", "probe:ok"}
      [] ev = "palette" -> {"srt:ok"}
      [] ev = "gif" -> {"palette:ok"}
      [] ev = "preview:ok" -> {"palette:ok", "gif:ok"}
      [] ev = "encode" -> {"srt:ok", "palette:ok", "gif:ok", "preview:ok"}
      [] ev = "cleanup:done" -> {"cleanup"}
      [] OTHER -> {}

\* the events with which a stage before the cleanup starts or ends
StageEvents ==
    {"parse:ok", "parse:fail", "probe", "probe:ok", "probe:fail", "srt:ok", "palette",
     "palette:ok", "palette:fail", "gif", "gif:ok", "gif:fail", "rmpalette", "preview:ok",
     "preview:fail", "encode", "encode:ok", "encode:fail"}

C6_CleanupBeforePayload ==
    \A t \in Tasks :
        LET log == tasks[t].log
        IN  /\ \A k \in 1..Len(log) :
                  log[k] \in Stores \cup {"pairOk", "pairFail"}
                      => Before(log, k, "cleanup") /\ Before(log, k, "cleanup:done")
            /\ (env.inputs /\ tasks[t].pc > 0 /\ Cur(t).op \in {"store", "storeError"})
                  => {scriptPath(t), videoPath(t), srtPath(t)} \cap files = {}

\* one job has stored its result and another, at the same time, its error
C6_Witness ==
    \E t, u \in Tasks :
        /\ "store" \in Events(t)
        /\ "storeError" \in Events(u)
        /\ "encode:fail" \in Events(u)

\* C7: after a job's payload is stored, one retirement is scheduled five
\* minutes later for a job that succeeded and one minute later for a job that
\* failed; until it fires the progress entry and the result entry stay in the
\* registry, and it removes both.
C7_RetiredAfterFixedDelay ==
    [][\A t \in Tasks :
          /\ Logs(t, "timer") =>
                \E tm \in timers' \ timers :
                    /\ tm.jobId = tasks[t].jobId
                    /\ tm.due - now = IF "storeError" \in Events(t) THEN 1 * 60 * 1000
                                      ELSE 5 * 60 * 1000
          /\ (\E tm \in timers' : tm.task = t) =>
                /\ tasks[t].jobId \in DOMAIN processingProgress'
                /\ tasks[t].jobId \in DOMAIN processingResults'
          /\ \A tm \in timers \ timers' :
                /\ tm.jobId \notin DOMAIN processingProgress'
                /\ tm.jobId \notin DOMAIN processingResults']_vars

\* C8: whenever the script ends after the video, the encoder appends a blank
\* clip of scriptDuration - videoDuration, the processing window is the
\* script's duration, and the cues written are the cues parsed.
C8_PadWhenScriptLonger ==
    \A t \in Tasks :
        (tasks[t].enc.launched /\ Less(tasks[t].dur, subtitlesDuration(tasks[t].subtitles)))
            => /\ tasks[t].enc.padding
                     = Minus(subtitlesDuration(tasks[t].subtitles), tasks[t].dur)
               /\ processingDuration(server, tasks[t].dur, tasks[t].subtitles)
                     = subtitlesDuration(tasks[t].subtitles)
               /\ tasks[t].srt = tasks[t].subtitles

\* C9: whenever the video is at least as long as the script, the processing
\* window is the script's duration, the cues written are the cues parsed, with
\* their start, end and duration, and the encoder is limited to that window,
\* without padding; when the two durations are equal this is the whole video.
C9_TruncateWhenVideoLonger ==
    \A t \in Tasks :
        (tasks[t].enc.launched /\ LessEq(subtitlesDuration(tasks[t].subtitles), tasks[t].dur))
            => /\ processingDuration(server, tasks[t].dur, tasks[t].subtitles)
                     = subtitlesDuration(tasks[t].subtitles)
               /\ tasks[t].srt = tasks[t].subtitles
               /\ tasks[t].enc.t = subtitlesDuration(tasks[t].subtitles)
               /\ tasks[t].enc.padding = Zero
               /\ tasks[t].dur = subtitlesDuration(tasks[t].subtitles)
                     => tasks[t].enc.t = tasks[t].dur

\* the encoder is launched for a video that is longer than a script of three cues
C9_Witness ==
    \E t \in Tasks :
        /\ tasks[t].enc.launched
        /\ Len(tasks[t].subtitles) = 3
        /\ Less(subtitlesDuration(tasks[t].subtitles), tasks[t].dur)

\* every cue of cues is inside the window
InWindow(cues, window) ==
    \A k \in 1..Len(cues) :
        /\ Less(cues[k].start, window)
        /\ LessEq(cues[k].end, window)
        /\ cues[k].duration = Minus(cues[k].end, cues[k].start)

\* C10 as stated: every cue written to the subtitle file and every cue of a
\* stored result is inside the processing window (start < window, end <= window,
\* duration = end - start), and no parsed cue that starts at or after the
\* window is written.
C10_CuesInsideWindow ==
    /\ \A t \in Tasks :
          tasks[t].stamp >= 0 =>
              LET window == processingDuration(server, tasks[t].dur, tasks[t].subtitles)
              IN  /\ InWindow(tasks[t].srt, window)
                  /\ \A k \in 1..Len(tasks[t].subtitles) :
                        LessEq(window, tasks[t].subtitles[k].start)
                            => \A j \in 1..Len(tasks[t].srt) :
                                  tasks[t].srt[j].id # tasks[t].subtitles[k].id
    /\ \A jobId \in DOMAIN processingResults :
          LET payload == processingResults[jobId]
          IN  IF "batchMode" \in DOMAIN payload
              THEN \A k \in 1..Len(payload.results) :
                      payload.results[k].success
                          => InWindow(payload.results[k].subtitles,
                                      payload.results[k].durationSeconds)
              ELSE payload.success => InWindow(payload.subtitles, payload.durationSeconds)

\* every cue of cues is inside the window, and its duration is its end minus its
\* start or its end is its start plus its duration, as doubles
InWindowRounded(cues, window) ==
    \A k \in 1..Len(cues) :
        /\ Less(cues[k].start, window)
        /\ LessEq(cues[k].end, window)
        /\ \/ cues[k].duration = Minus(cues[k].end, cues[k].start)
           \/ cues[k].end = Plus(cues[k].start, cues[k].duration)

\* C10, amended: every cue written to the subtitle file and every cue of a stored
\* result is inside the processing window (start < window, end <= window), the
\* duration of a shortened cue is end - start and the end of any other cue is
\* start + duration, in double precision, and no parsed cue that starts at or
\* after the window is written.
C10_CuesInsideWindowRounded ==
    /\ \A t \in Tasks :
          tasks[t].stamp >= 0 =>
              LET window == processingDuration(server, tasks[t].dur, tasks[t].subtitles)
              IN  /\ InWindowRounded(tasks[t].srt, window)
                  /\ \A j \in 1..Len(tasks[t].srt) :
                        LET sub == tasks[t].srt[j]
                        IN  IF sub.end = tasks[t].subtitles[sub.id].end
                            THEN sub.end = Plus(sub.start, sub.duration)
                            ELSE sub.duration = Minus(sub.end, sub.start)
                  /\ \A k \in 1..Len(tasks[t].subtitles) :
                        LessEq(window, tasks[t].subtitles[k].start)
                            => \A j \in 1..Len(tasks[t].srt) :
                                  tasks[t].srt[j].id # tasks[t].subtitles[k].id
    /\ \A jobId \in DOMAIN processingResults :
          LET payload == processingResults[jobId]
          IN  IF "batchMode" \in DOMAIN payload
              THEN \A k \in 1..Len(payload.results) :
                      payload.results[k].success
                          => InWindowRounded(payload.results[k].subtitles,
                                             payload.results[k].durationSeconds)
              ELSE payload.success
                      => InWindowRounded(payload.subtitles, payload.durationSeconds)

\* a subtitle file is written from which the third cue is dropped and in which
\* the second cue is shortened
C10_Witness ==
    \E t \in Tasks :
        /\ tasks[t].stamp >= 0
        /\ Len(tasks[t].subtitles) = 3
        /\ Len(tasks[t].srt) = 2
        /\ Less(tasks[t].srt[2].duration, tasks[t].subtitles[2].duration)

\* the duration over which an encoder launched with arguments enc runs, for a
\* video of duration dur: the video up to the '-t' limit, and the padding
EncodedDuration(enc, dur) ==
    Plus(IF enc.t = NoLimit THEN dur ELSE MathMin(enc.t, dur), enc.padding)

\* C11: no video content is dropped: the duration over which the encoder runs
\* is at least the duration of the source video.
C11_NoVideoDropped ==
    \A t \in Tasks :
        tasks[t].enc.launched
            => LessEq(tasks[t].dur, EncodedDuration(tasks[t].enc, tasks[t].dur))

\* C12: the cues the parser returns for a script with a non-blank line tile the
\* time from 0 on: the first cue starts at 0, every other cue starts where the
\* cue before it ends, and the starts never decrease, whatever the options.
C12_CuesTile ==
    \A t \in Tasks :
        LET subtitles == tasks[t].subtitles
        IN  Len(subtitles) > 0
                => /\ subtitles[1].start = Zero
                   /\ \A k \in 1..(Len(subtitles) - 1) :
                         /\ subtitles[k + 1].start = subtitles[k].end
                         /\ LessEq(subtitles[k].start, subtitles[k + 1].start)

\* a script of three lines is parsed with options other than the defaults
C12_Witness ==
    \E t \in Tasks :
        /\ Len(tasks[t].subtitles) = 3
        /\ tasks[t].options.wordDuration # wordDuration
        /\ "parse:ok" \in Events(t)

\* C13 as stated: the duration of every parsed cue is baseDuration + wordCount *
\* wordDuration, and its end minus its start is that duration.
C13_EndMinusStartIsDuration ==
    \A t \in Tasks :
        \A k \in 1..Len(tasks[t].subtitles) :
            LET sub == tasks[t].subtitles[k]
            IN  /\ sub.duration = Plus(tasks[t].options.baseDuration,
                                       Times(countWords(sub.text), tasks[t].options.wordDuration))
                /\ Minus(sub.end, sub.start) = sub.duration

\* C13, amended: the duration of every parsed cue is the double baseDuration +
\* wordCount * wordDuration, and its end is the double start + duration (whose
\* distance to the start need not be the duration, the sum being rounded).
C13_DurationByFormula ==
    \A t \in Tasks :
        \A k \in 1..Len(tasks[t].subtitles) :
            LET sub == tasks[t].subtitles[k]
            IN  /\ sub.duration = Plus(tasks[t].options.baseDuration,
                                       Times(countWords(sub.text), tasks[t].options.wordDuration))
                /\ sub.end = Plus(sub.start, sub.duration)

\* a line of two words is parsed into a cue whose end minus its start is not
\* its duration
C13_Witness ==
    \E t \in Tasks :
        \E k \in 1..Len(tasks[t].subtitles) :
            /\ countWords(tasks[t].subtitles[k].text) = 2
            /\ Minus(tasks[t].subtitles[k].end, tasks[t].subtitles[k].start)
                   # tasks[t].subtitles[k].duration

\* the uploads of request t that are on disk
UploadsOnDisk(t) == {f \in files : f[1] \in {"script", "video"} /\ f[2] = t}

\* C14: a submission that fails validation (a file is missing, or the script
\* has only blank lines) creates no job: once it is rejected, or its script is
\* found empty, the registry holds no progress entry and no result entry under
\* its job id, and none of its files is on disk.
C14_RejectedLeavesNothing ==
    \A t \in Tasks :
        ("400" \in Events(t) \/ "parse:fail" \in Events(t))
            => /\ tasks[t].jobId \notin DOMAIN processingProgress
               /\ tasks[t].jobId \notin DOMAIN processingResults
               /\ UploadsOnDisk(t) = {}

\* the events of an external process that is launched
Spawns == {"probe", "palette", "gif", "encode"}

\* positions j and k of log are in the same pair of a batch (or the job is single)
SamePair(log, j, k) ==
    \A m \in 1..Len(log) :
        ((j <= m /\ m <= k) \/ (k <= m /\ m <= j)) => log[m] # "pair"

\* C15 as stated: a job whose script has no non-blank line fails with the
\* empty-script error, and no external process is ever launched for the job.
C15_EmptyScriptFailsJob ==
    \A t \in Tasks :
        "parse:fail" \in Events(t)
            => /\ Events(t) \cap Spawns = {}
               /\ "storeBatch" \notin Events(t)
               /\ ("storeError" \in Events(t)
                      /\ tasks[t].jobId \in DOMAIN processingResults)
                     => ~processingResults[tasks[t].jobId].success

\* C15, amended: when a script has no non-blank line, no external process is
\* launched for it (in a batch: for its pair); a single-video job then stores
\* the error payload with the empty-script error, and a batch job records the
\* empty-script error for the pair and goes on.
C15_EmptyScriptLaunchesNothing ==
    [][\A t \in Tasks :
          LET log == tasks'[t].log
          IN  /\ \A k \in 1..Len(log) :
                    log[k] = "parse:fail"
                        => \A j \in 1..Len(log) :
                              log[j] \in Spawns => ~SamePair(log, j, k)
              /\ (Logs(t, "storeError") /\ "parse:fail" \in Events(t))
                    => processingResults'[tasks[t].jobId]
                          = [ErrorPayload(t) EXCEPT !.details = EmptyScript]
              /\ (Logs(t, "pairFail") /\ Before(log, Len(log), "parse:fail"))
                    => tasks'[t].results[Len(tasks'[t].results)]
                          = [index |-> tasks[t].i, success |-> FALSE,
                             error |-> EmptyScript]]_vars

\* the error payload of a script without a non-blank line is stored
C15_Witness ==
    \E t \in Tasks :
        /\ "parse:fail" \in Events(t)
        /\ "storeError" \in Events(t)
        /\ tasks[t].jobId \in DOMAIN processingResults
        /\ processingResults[tasks[t].jobId].details = EmptyScript

\* the last event of a log, "" when there is none
Last(log) == IF Len(log) = 0 THEN "" ELSE log[Len(log)]

\* event ev is in the log of task, in the pair the task is at
InPair(task, ev) ==
    \E k \in 1..Len(task.log) : task.log[k] = ev /\ SamePair(task.log, k, Len(task.log))

\* the probe of the job (of the pair) task is at has exited with a non-zero code
ProbeExited(task) ==
    task.err = "FFprobe failed: <stderr>" /\ InPair(task, "probe:fail")

\* what holds of a job whose probe has exited with a non-zero code, on both
\* readings of C16: no subtitle file is written, no preview process and no
\* encoder is launched, there is no output video, the files are deleted before
\* the failure is stored, and a single-video job stores the probe's error
ProbeFailureAborts(t) ==
    /\ tasks'[t].stamp = -1
    /\ \A ev \in {"srt:ok", "palette", "gif", "encode", "encode:ok"} :
          ~InPair(tasks'[t], ev)
    /\ outputPath(t) \notin files'
    /\ (Logs(t, "storeError") \/ Logs(t, "pairFail")) => InPair(tasks[t], "cleanup:done")
    /\ Logs(t, "storeError")
          => processingResults'[tasks[t].jobId]
                = [ErrorPayload(t) EXCEPT !.details = "FFprobe failed: <stderr>"]

\* C16 as stated: when the probe exits with a non-zero code the job fails with
\* the probe's error payload, the uploaded script and video are deleted, no
\* subtitle file is written, no preview and no encode is launched, and there
\* is no output video.
C16_ProbeFailureFailsJob ==
    [][\A t \in Tasks :
          ProbeExited(tasks'[t])
              => /\ ProbeFailureAborts(t)
                 /\ ~Logs(t, "pairFail")
                 /\ (Len(tasks'[t].log) > Len(tasks[t].log)
                     /\ Last(tasks'[t].log) = "cleanup:done")
                       => {scriptPath(t), videoPath(t)} \cap files' = {}]_vars

\* C16, amended: when the probe exits with a non-zero code, no subtitle file is
\* written, no preview and no encode is launched and there is no output video;
\* the deletion of the uploaded script and video is attempted, and they are
\* gone unless every attempt to unlink one of them failed; then a single-video
\* job stores the probe's error payload, and a batch job records the probe's
\* error for the pair and goes on.
C16_ProbeFailureAbortsPair ==
    [][\A t \in Tasks :
          ProbeExited(tasks'[t])
              => /\ ProbeFailureAborts(t)
                 /\ Logs(t, "pairFail")
                       => tasks'[t].results[Len(tasks'[t].results)]
                             = [index |-> tasks[t].i, success |-> FALSE,
                                error |-> "FFprobe failed: <stderr>"]
                 /\ (Len(tasks'[t].log) > Len(tasks[t].log)
                     /\ Last(tasks'[t].log) = "cleanup:done"
                     /\ {scriptPath(t), videoPath(t)} \cap files' # {})
                       => env'.faults < env.faults]_vars

\* the error payload of a probe that exited with a non-zero code is stored, and
\* the uploads of the job are gone
C16_Witness ==
    \E t \in Tasks :
        /\ ProbeExited(tasks[t])
        /\ Last(tasks[t].log) = "storeError"
        /\ tasks[t].jobId \in DOMAIN processingResults
        /\ processingResults[tasks[t].jobId].details = "FFprobe failed: <stderr>"
        /\ UploadsOnDisk(t) = {}

\* the events of an external process that exited with a non-zero code, errored,
\* or (the probe) gave no usable output
ProcessFailures == {"probe:fail", "palette:fail", "gif:fail", "encode:fail"}

\* safeDeleteFile calls fs.unlink again after an error, maxRetries times at most,
\* and not after a success
DeletionRetried ==
    \A errs \in UnlinkErrors :
        LET unlinks == safeDeleteFile(TRUE, errs).unlinks
        IN  /\ unlinks <= maxRetries
            /\ \A k \in 1..(unlinks - 1) : errs[k]
            /\ unlinks < maxRetries => ~errs[unlinks]

\* C17 as stated: within one job every external process is launched at most
\* once, and none is launched once one of them has failed; only the deletion
\* of a file is retried.
C17_LaunchedOncePerJob ==
    [][\A t \in Tasks : \A ev \in Spawns :
          Logs(t, ev) => /\ ev \notin Events(t)
                         /\ Events(t) \cap ProcessFailures = {}
                         /\ DeletionRetried]_vars

\* C17, amended: for one script/video pair (a single-video job has one, a batch
\* job one after the other) every external process is launched at most once,
\* and none is launched for the pair once one of them has failed; only the
\* deletion of a file is retried.
C17_LaunchedOncePerPair ==
    [][\A t \in Tasks : \A ev \in Spawns :
          Logs(t, ev) => /\ ~InPair(tasks[t], ev)
                         /\ \A failure \in ProcessFailures : ~InPair(tasks[t], failure)
                         /\ DeletionRetried]_vars

\* the four processes of a job have been launched, the last of them has failed,
\* and the failure has been stored
C17_Witness ==
    \E t \in Tasks :
        /\ Spawns \subseteq Events(t)
        /\ "encode:fail" \in Events(t)
        /\ Last(tasks[t].log) = "storeError"

\* this step ends the preview stage of task t: the promise of the preview is
\* resolved, or rejected by one of its two processes
PreviewEnds(t) ==
    \/ Logs(t, "preview:ok")
    \/ Logs(t, "preview:fail")
    \/ Logs(t, "palette:fail")
    \/ Logs(t, "gif:fail") /\ tasks'[t].pc = CatchPc(server, tasks[t].mode)

\* C18: a failure of the palette extraction or of the palette-indexed encode is
\* fatal (no result is made for the job, or for the pair of a batch), and
\* whenever the preview stage ends, with a success or with a failure of either
\* process, safeDeleteFile(palettePath) has been called.
C18_PaletteDeletionAttempted ==
    [][\A t \in Tasks :
          /\ (Logs(t, "store") \/ Logs(t, "pairOk"))
                => ~InPair(tasks[t], "palette:fail") /\ ~InPair(tasks[t], "gif:fail")
          /\ PreviewEnds(t)
                => InPair(tasks[t], "rmpalette") \/ AtOp(t, "rmpalette")]_vars

\* the encoder of the job (of the pair) task is at has exited with a non-zero code
EncodeExited(task) ==
    task.err = "Failed to process video: <stderr>" /\ InPair(task, "encode:fail")

\* an encoder of the job of task has exited with a non-zero code, in the pair
\* the task is at or in an earlier pair of the batch
EncodeExitedInJob(task) ==
    \/ EncodeExited(task)
    \/ \E k \in 1..Len(task.results) :
          /\ ~task.results[k].success
          /\ task.results[k].error = "Failed to process video: <stderr>"

\* C19 as stated: when the encoder exits with a non-zero code the job fails and
\* never succeeds, its progress never reaches 98 or 100, and the detail of the
\* error payload that is stored holds the encoder's error output.
C19_EncodeFailureFailsJob ==
    [][\A t \in Tasks :
          EncodeExitedInJob(tasks'[t])
              => /\ tasks'[t].reported \notin {98, 100}
                 /\ ~Logs(t, "store") /\ ~Logs(t, "storeBatch")
                 /\ Logs(t, "storeError")
                       => processingResults'[tasks[t].jobId]
                             = [ErrorPayload(t) EXCEPT
                                   !.details = "Failed to process video: <stderr>"]]_vars

\* C19, amended: when the encoder exits with a non-zero code, processSingleVideo
\* reports neither 98 nor 100 afterwards and returns no result; a single-video
\* job then stores the error payload, whose detail holds the encoder's error
\* output, and its progress never reaches 98 or 100; a batch job records the
\* error for the pair and goes on.
C19_EncodeFailureFailsPair ==
    [][\A t \in Tasks :
          /\ (EncodeExited(tasks[t]) /\ AtOp(t, "progress") /\ Cur(t).inner)
                => Cur(t).p \notin {98, 100}
          /\ EncodeExited(tasks'[t])
                => /\ tasks[t].mode = "single" => tasks'[t].reported \notin {98, 100}
                   /\ ~Logs(t, "store") /\ ~Logs(t, "pairOk")
                   /\ Logs(t, "storeError")
                         => processingResults'[tasks[t].jobId]
                               = [ErrorPayload(t) EXCEPT
                                     !.details = "Failed to process video: <stderr>"]
                   /\ Logs(t, "pairFail")
                         => tasks'[t].results[Len(tasks'[t].results)]
                               = [index |-> tasks[t].i, success |-> FALSE,
                                  error |-> "Failed to process video: <stderr>"]]_vars

\* the error payload of an encoder that exited with a non-zero code is stored
\* by a job that had reported the encoder's progress
C19_Witness ==
    \E t \in Tasks :
        /\ EncodeExited(tasks[t])
        /\ Last(tasks[t].log) = "storeError"
        /\ tasks[t].reported >= 55
        /\ tasks[t].jobId \in DOMAIN processingResults
        /\ processingResults[tasks[t].jobId].details = "Failed to process video: <stderr>"

\* the encoder of the task is running
Encoding(task) ==
    /\ task.pc > 0
    /\ task.wait
    /\ Code(server, task.mode)[task.pc].op = "encode"

\* C20 as stated: every progress value a job writes while its encoder runs is
\* an integer from 55 to 95, whatever markers the encoder reports, and the job
\* writes 98 or 100 only after its encoder has exited with code 0.
C20_EncodeBand ==
    [][\A t \in Tasks :
          /\ Encoding(tasks'[t]) => tasks'[t].reported \in 55..95
          /\ (tasks'[t].reported \in {98, 100}
              /\ tasks'[t].reported # tasks[t].reported)
                => "encode:ok" \in Events(t)]_vars

\* C20, amended: while the encoder runs processSingleVideo reports integers
\* from 55 to 95 only, whatever markers the encoder reports, and it reports 98
\* and 100 only after the encoder has exited with code 0. A single-video job
\* writes these values as they are; a batch job of n pairs writes, for the
\* value p of its pair i, Math.round(5 + i / n * 90 + p / n * 0.9), and 100
\* when its last pair has been processed, whatever the outcomes.
C20_EncodeBandPerPair ==
    [][\A t \in Tasks :
          /\ Encoding(tasks'[t])
                => \E p \in 55..95 :
                      tasks'[t].reported = Reported(tasks[t], p, "").progress
          /\ (AtOp(t, "progress") /\ Cur(t).inner /\ Cur(t).p \in {98, 100})
                => InPair(tasks[t], "encode:ok")
          /\ (tasks[t].mode = "single"
              /\ tasks'[t].reported \in {98, 100}
              /\ tasks'[t].reported # tasks[t].reported)
                => "encode:ok" \in Events(t)]_vars

\* the encoder of a single-video job is running and has reported a marker at or
\* beyond the end of the window
C20_Witness ==
    \E t \in Tasks :
        /\ tasks[t].mode = "single"
        /\ Encoding(tasks[t])
        /\ tasks[t].reported = 95

\* C21: safeDeleteFile always completes: whatever the outcomes of its fs.unlink
\* calls, it resolves (it never rejects) after maxRetries calls at most, the
\* file being left only when every call failed, and it resolves without any
\* call when the file is not there, as for the null path of a subtitle file
\* that was never written.
C21_SafeDeleteCompletes ==
    /\ \A exists \in BOOLEAN, errs \in UnlinkErrors :
          LET done == safeDeleteFile(exists, errs)
          IN  /\ done.settled = "resolved"
              /\ done.unlinks \in 0..maxRetries
              /\ ~exists => done.unlinks = 0 /\ ~done.exists
              /\ exists => done.unlinks >= 1
              /\ done.exists <=> (exists /\ \A k \in 1..maxRetries : errs[k])
    /\ \A t \in Tasks, errs \in UnlinkErrors :
          tasks[t].stamp < 0
              => safeDeleteFile(srtPath(t) \in files, errs).unlinks = 0

\* the files of a job have been deleted, but for one that every fs.unlink call
\* failed to remove, and the job has stored its result
C21_Witness ==
    \E t \in Tasks :
        /\ "cleanup:done" \in Events(t)
        /\ scriptPath(t) \in files
        /\ videoPath(t) \notin files
        /\ Last(tasks[t].log) = "store"

\* C22: a file that cannot be deleted never changes the outcome of a job: once
\* the encoder has exited with code 0 (the probe and the preview processes
\* before it), the cleanup goes on to the next statement whatever it leaves on
\* disk, no failure is stored or recorded, and the job stores its result with
\* success = true after it has written progress 100.
C22_DeletionNeverFailsJob ==
    [][\A t \in Tasks :
          InPair(tasks[t], "encode:ok")
              => /\ (tasks[t].wait /\ Cur(t).op = "cleanup" /\ tasks'[t] # tasks[t])
                       => /\ Logs(t, "cleanup:done")
                          /\ tasks'[t].pc = tasks[t].pc + 1
                          /\ tasks'[t].err = tasks[t].err
                 /\ ~Logs(t, "storeError") /\ ~Logs(t, "pairFail")
                 /\ Logs(t, "store")
                       => /\ tasks[t].reported = 100
                          /\ processingResults'[tasks[t].jobId] = ResultPayload(t)
                          /\ processingResults'[tasks[t].jobId].success
                 /\ Logs(t, "pairOk")
                       => tasks'[t].results[Len(tasks'[t].results)].success]_vars

\* a job has stored its result with progress 100 although its script, its video
\* and its subtitle file are still on disk
C22_Witness ==
    \E t \in Tasks :
        /\ Last(tasks[t].log) = "store"
        /\ {scriptPath(t), videoPath(t), srtPath(t)} \subseteq files
        /\ tasks[t].jobId \in DOMAIN processingResults
        /\ processingResults[tasks[t].jobId].success
        /\ processingProgress[tasks[t].jobId].progress = 100

\* C23: job ids are unique, two requests that arrive at the same reading of the
\* clock included: no two tasks have the same job id, so no two background tasks
\* write the same progress entry or the same result entry.
C23_JobIdsUnique ==
    \A t1, t2 \in Tasks :
        (t1 # t2 /\ tasks[t1].http = 200 /\ tasks[t2].http = 200)
            => tasks[t1].jobId # tasks[t2].jobId

\* the entry of jobId in a registry: the set of the entry, empty when there is none
Entry(reg, jobId) == IF jobId \in DOMAIN reg THEN {reg[jobId]} ELSE {}

\* C24: the registry entries of a job are created and changed by its background
\* task and removed by its retirement, and by no other handler: a request
\* POST /api/test-progress leaves the progress entry and the result of every
\* job as they are.
C24_OnlyOwnTaskWrites ==
    [][\A t \in Tasks :
          LET jobId == tasks[t].jobId
          IN  env'.tests # env.tests
                  => /\ Entry(processingProgress', jobId) = Entry(processingProgress, jobId)
                     /\ Entry(processingResults', jobId) = Entry(processingResults, jobId)]_vars

\* the job ids of the requests so far and those with an entry in the registry
Registered == KnownIds \cup DOMAIN processingProgress \cup DOMAIN processingResults

\* C25: jobs with different ids are isolated in the registry, however their
\* tasks interleave: a step of a task leaves the progress entry and the result
\* of every other job id as they are, the retirement of a job removes the entries
\* of its own id only, and no step changes the entries of two job ids.
C25_JobsIsolated ==
    [][\A j \in Registered :
          (\/ Entry(processingProgress', j) # Entry(processingProgress, j)
           \/ Entry(processingResults', j) # Entry(processingResults, j))
              => /\ \A t \in Tasks : tasks'[t] # tasks[t] => tasks[t].jobId = j
                 /\ \A tm \in timers \ timers' : tm.jobId = j
                 /\ \A k \in Registered \ {j} :
                       /\ Entry(processingProgress', k) = Entry(processingProgress, k)
                       /\ Entry(processingResults', k) = Entry(processingResults, k)]_vars

\* two jobs with different ids: one has stored its result, the other is still
\* running with its own progress entry
C25_Witness ==
    \E t, u \in Tasks :
        /\ tasks[t].jobId # tasks[u].jobId
        /\ Last(tasks[t].log) = "store"
        /\ tasks[t].jobId \in DOMAIN processingResults
        /\ tasks[u].pc > 0
        /\ tasks[u].jobId \in DOMAIN processingProgress
        /\ tasks[u].jobId \notin DOMAIN processingResults
        /\ processingProgress[tasks[u].jobId].progress
              # processingProgress[tasks[t].jobId].progress

\* the subtitle file, the palette, the preview and the output of task t
StampedPaths(t) == {srtPath(t), palettePath(t), previewPath(t), outputPath(t)}

\* C26: two jobs that run at the same time never have an intermediate or output
\* file path in common (subtitle file, palette, preview, output), jobs that take
\* their names at the same reading of the clock included.
C26_PathsDisjoint ==
    \A t, u \in Tasks :
        (t # u /\ tasks[t].stamp >= 0 /\ tasks[u].stamp >= 0)
            => StampedPaths(t) \cap StampedPaths(u) = {}

\* task t is an accepted job that has not stored a payload yet
NotTerminal(t) ==
    /\ tasks[t].http = 200
    /\ tasks[t].pc > 0
    /\ \A k \in 1..Len(tasks[t].log) : tasks[t].log[k] \notin Stores

\* C27: the polling reads answer in every state and from the registry as it is:
\* the progress read gives the entry of the id, and progress 0 'Starting...'
\* for an id without an entry; the result read gives the stored payload, and
\* not-found for an id without one, which is the answer for every job that has
\* not reached a terminal state.
C27_PollingReads ==
    /\ \A j \in Registered :
          /\ GetProgress(j) \in Entry(processingProgress, j)
                                  \cup {[progress |-> 0, status |-> "Starting..."]}
          /\ j \notin DOMAIN processingProgress
                => GetProgress(j) = [progress |-> 0, status |-> "Starting..."]
          /\ IF j \in DOMAIN processingResults
             THEN GetResult(j) = [code |-> 200, body |-> processingResults[j]]
             ELSE GetResult(j).code = 404
    /\ \A t \in Tasks : NotTerminal(t) => GetResult(tasks[t].jobId).code = 404

\* the timer of task t has fired: the entries of its job are removed
Retired(t) ==
    /\ "timer" \in Events(t)
    /\ \A tm \in timers : tm.task # t

\* what a poll is answered for a job that stands at 0%
AtZero == [progress |-> 0, status |-> "Starting..."]

\* C28: a progress poll for a job that is retired is answered differently from
\* a poll for a job that is still running at 0%: the two are never the same
\* response.
C28_RetiredPollDistinct ==
    \A t \in Tasks :
        (Retired(t) /\ tasks[t].jobId \notin DOMAIN processingProgress)
            => GetProgress(tasks[t].jobId) # AtZero

\* task t was answered with its job id
Accepted(t) == t \in Tasks /\ tasks[t].http = 200

\* task t has stored a payload
Stored(t) == \E k \in 1..Len(tasks[t].log) : tasks[t].log[k] \in Stores

\* task t has just stored its payload: the job is in a terminal state
Terminal(t) ==
    /\ Accepted(t)
    /\ Last(tasks[t].log) \in Stores
    /\ tasks[t].jobId \in DOMAIN processingResults

\* task t waits for a process it has launched
ProcessRunning(t) ==
    /\ tasks[t].pc > 0
    /\ tasks[t].wait
    /\ Cur(t).op \in Spawns

C30_ReconcilerIdempotent ==
    \A t \in Tasks :
        /\ (tasks[t].stamp >= 0 /\ server = "overlap")
              => LET window == processingDuration(server, tasks[t].dur, tasks[t].subtitles)
                 IN  /\ tasks[t].srt = reconciledSubtitles(tasks[t].subtitles, window)
                     /\ reconciledSubtitles(tasks[t].srt, window) = tasks[t].srt
        /\ \A window \in VideoDurations :
              LET once == reconciledSubtitles(tasks[t].subtitles, window)
              IN  reconciledSubtitles(once, window) = once

\* a subtitle file is written in which a cue is cut at the window and from which
\* a later cue is left out
C30_Witness ==
    \E t \in Tasks :
        /\ tasks[t].stamp >= 0
        /\ server = "overlap"
        /\ Len(tasks[t].srt) < Len(tasks[t].subtitles)
        /\ \E k \in 1..Len(tasks[t].srt) :
              /\ tasks[t].srt[k].end
                    = processingDuration(server, tasks[t].dur, tasks[t].subtitles)
              /\ Less(tasks[t].srt[k].end, tasks[t].subtitles[k].end)

\* the colours of RequestOptions that are written as # and six hex digits, and
\* the default colour
HexColors == {"#EC4899", "#FFFFFF"}

\* a record of options as the claim describes the validated one
ValidOptions(o) ==
    /\ LessEq(Tenth, o.baseDuration) /\ LessEq(o.baseDuration, Number(2560))
    /\ LessEq(Tenth, o.wordDuration) /\ LessEq(o.wordDuration, Number(512))
    /\ o.fontSize \in 12..48
    /\ o.position \in {"top", "center", "bottom"}
    /\ o.fontWeight \in {"normal", "bold"}
    /\ o.fontColor \in HexColors

\* C31: whatever the request sends as options (absent, not a number, zero,
\* negative, out of range), the validation does not fail the job and gives
\* baseDuration in [0.1, 10], wordDuration in [0.1, 2], an integer fontSize in
\* [12, 48], a position among top, center, bottom, a fontWeight among normal,
\* bold and a hex fontColor; absent values become 3, 0.3, 24, bottom, bold
\* and #EC4899.
C31_OptionsValidated ==
    /\ \A options \in DefaultRequestOptions :
          processOptions(options)
          = [baseDuration |-> baseDuration, wordDuration |-> wordDuration,
             fontColor |-> "#EC4899", fontWeight |-> "bold", fontSize |-> 24,
             position |-> "bottom"]
    /\ \A t \in Tasks :
          tasks[t].options # NoOptions => ValidOptions(tasks[t].options)

\* the natural number written with the given decimal digits
RECURSIVE Value(_)
Value(digits) ==
    IF digits = <<>> THEN 0
    ELSE 10 * Value(SubSeq(digits, 1, Len(digits) - 1)) + digits[Len(digits)]

\* the fields HH:MM:SS,mmm of a time line are zero-padded to 2, 2, 2 and 3
\* digits and show the whole seconds of the time and a number of milliseconds
TimeFieldsOf(fields, seconds) ==
    /\ Len(fields.hours) = 2 /\ Len(fields.minutes) = 2
    /\ Len(fields.secs) = 2 /\ Len(fields.ms) = 3
    /\ Value(fields.minutes) < 60 /\ Value(fields.secs) < 60
    /\ (Value(fields.hours) * 60 + Value(fields.minutes)) * 60 + Value(fields.secs)
          = Floor(seconds)
    /\ \A k \in 1..3 : fields.ms[k] \in 0..9

\* C32: the subtitle file has one block per cue, in the order of the cues; a
\* block is the index of the cue, the line 'HH:MM:SS,mmm --> HH:MM:SS,mmm' with
\* hours, minutes and seconds padded to 2 digits and milliseconds to 3, and the
\* text of the cue; a blank line stands between two blocks; the file is a
\* function of the cues alone.
C32_OneBlockPerCue ==
    \A t \in Tasks :
        tasks[t].stamp >= 0 =>
            LET cues == tasks[t].srt
                lines == tasks[t].srtContent
            IN  /\ lines = generateSRT(cues)
                /\ Len(cues) >= 1
                /\ Len(lines) = 4 * Len(cues) - 1
                /\ \A j \in 1..Len(cues) :
                      /\ lines[4 * j - 3] = [line |-> "index", id |-> cues[j].id]
                      /\ lines[4 * j - 2].line = "time"
                      /\ TimeFieldsOf(lines[4 * j - 2].start, cues[j].start)
                      /\ TimeFieldsOf(lines[4 * j - 2].end, cues[j].end)
                      /\ lines[4 * j - 1] = [line |-> "text", text |-> cues[j].text]
                      /\ j < Len(cues) => lines[4 * j] = [line |-> "blank"]

\* a subtitle file of two blocks or more is written
C32_Witness ==
    \E t \in Tasks :
        /\ tasks[t].stamp >= 0
        /\ Len(tasks[t].srt) >= 2
        /\ Len(tasks[t].srtContent) >= 7
        /\ tasks[t].srtContent[4].line = "blank"

\* the time of a cue in milliseconds: the integer nearest to seconds * 1000
CueMillis(seconds) ==
    LET product == ExactTimes(10, ExactTimes(10, ExactTimes(10, seconds)))
    IN  Floor(product) + (IF product[1] % 256 >= 128 THEN 1 ELSE 0)

\* the time read back from the fields of a time line, in milliseconds
ParsedMillis(fields) ==
    ((Value(fields.hours) * 60 + Value(fields.minutes)) * 60 + Value(fields.secs)) * 1000
    + Value(fields.ms)

\* C33: the start and the end read back from the time lines of the subtitle file
\* are the start and the end of the cue in milliseconds: the millisecond field
\* is that of the cue time, never one less.
C33_RoundTripMillis ==
    \A t \in Tasks :
        tasks[t].stamp >= 0 =>
            \A j \in 1..Len(tasks[t].srt) :
                LET timeLine == tasks[t].srtContent[4 * j - 2]
                IN  /\ ParsedMillis(timeLine.start) = CueMillis(tasks[t].srt[j].start)
                    /\ ParsedMillis(timeLine.end) = CueMillis(tasks[t].srt[j].end)

\* a line with a word in it
HasWord(line) == \E k \in 1..Len(line) : line[k] # " "

\* the position in the script of its k-th line with a word
NthLine(script, k) ==
    CHOOSE i \in 1..Len(script) :
        /\ HasWord(script[i])
        /\ Cardinality({j \in 1..i : HasWord(script[j])}) = k

\* cues carry the indices 1, 2, ... in order
Sequential(cues) == \A j \in 1..Len(cues) : cues[j].id = j

\* C34: the parser makes one cue per non-blank line of the script, in the order
\* of the lines, with the trimmed text of the line, which is not empty; the cues
\* written to the subtitle file and those of a stored result carry the indices
\* 1, 2, ..., k in order without a gap, and the cues kept by the truncation are
\* a prefix of the parsed cues.
C34_IndicesSequential ==
    /\ \A t \in Tasks :
          LET script == tasks[t].script
              subtitles == tasks[t].subtitles
              srt == tasks[t].srt
          IN  /\ Len(subtitles) > 0
                    => /\ Len(subtitles)
                             = Cardinality({i \in 1..Len(script) : HasWord(script[i])})
                       /\ Sequential(subtitles)
                       /\ \A k \in 1..Len(subtitles) :
                             LET text == subtitles[k].text
                             IN  /\ text = trim(script[NthLine(script, k)])
                                 /\ text # <<>>
                                 /\ text[1] # " " /\ text[Len(text)] # " "
              /\ tasks[t].stamp >= 0
                    => /\ Sequential(srt)
                       /\ Len(srt) <= Len(subtitles)
                       /\ \A j \in 1..Len(srt) :
                             /\ srt[j].id = subtitles[j].id
                             /\ srt[j].text = subtitles[j].text
                             /\ srt[j].start = subtitles[j].start
    /\ \A jobId \in DOMAIN processingResults :
          LET payload == processingResults[jobId]
          IN  IF "batchMode" \in DOMAIN payload
              THEN \A k \in 1..Len(payload.results) :
                      payload.results[k].success
                          => Sequential(payload.results[k].subtitles)
              ELSE payload.success => Sequential(payload.subtitles)

\* a script with blank lines is parsed, and the subtitle file is written without
\* its last cue
C34_Witness ==
    \E t \in Tasks :
        /\ tasks[t].stamp >= 0
        /\ Len(tasks[t].script) > Len(tasks[t].subtitles)
        /\ Len(tasks[t].srt) >= 1
        /\ Len(tasks[t].srt) < Len(tasks[t].subtitles)

C36_PageLeavesProcessing ==
    \A t \in 1..MaxTasks :
        (client.task = t /\ Terminal(t)) ~> (client.step # "processing")

\* the number of pairs task t has started
PairsStarted(t) ==
    Cardinality({k \in 1..Len(tasks[t].log) : tasks[t].log[k] = "pair"})

\* C37: a batch job of n pairs starts its pairs one after another in index
\* order, pair i when the records of the pairs before it are there; a pair that
\* ends, with a result or with an error, adds its record behind them and the
\* loop goes on; and the payload stored after the loop holds n records in pair
\* order, successCount + failureCount = n, under a progress of 100.
C37_BatchProcessesEveryPair ==
    [][\A t \in Tasks :
          /\ Logs(t, "pair")
                => /\ tasks[t].i < tasks[t].n
                   /\ tasks[t].i = PairsStarted(t)
                   /\ Len(tasks[t].results) = tasks[t].i
          /\ (Logs(t, "pairOk") \/ Logs(t, "pairFail"))
                => /\ Len(tasks'[t].results) = Len(tasks[t].results) + 1
                   /\ SubSeq(tasks'[t].results, 1, Len(tasks[t].results))
                         = tasks[t].results
                   /\ Last(tasks'[t].results).index = tasks[t].i
                   /\ Last(tasks'[t].results).success = Logs(t, "pairOk")
                   /\ tasks'[t].i = tasks[t].i + 1
                   /\ Code(server, tasks[t].mode)[tasks'[t].pc].op = "pair"
          /\ Logs(t, "storeBatch")
                => LET payload == processingResults'[tasks[t].jobId]
                   IN  /\ PairsStarted(t) = tasks[t].n
                       /\ payload.success
                       /\ payload.totalPairs = tasks[t].n
                       /\ Len(payload.results) = tasks[t].n
                       /\ \A k \in 1..Len(payload.results) :
                             payload.results[k].index = k - 1
                       /\ payload.successCount = CountOf(payload.results, TRUE)
                       /\ payload.failureCount = CountOf(payload.results, FALSE)
                       /\ payload.successCount + payload.failureCount = tasks[t].n
                       /\ tasks[t].reported = 100
                       /\ processingProgress[tasks[t].jobId].progress = 100]_vars

\* a batch of two pairs has stored its payload: the first pair failed, the
\* second was processed after it and succeeded
C37_Witness ==
    \E t \in Tasks :
        /\ tasks[t].mode = "batch"
        /\ tasks[t].n = 2
        /\ "storeBatch" \in Events(t)
        /\ tasks[t].jobId \in DOMAIN processingResults
        /\ ~processingResults[tasks[t].jobId].results[1].success
        /\ processingResults[tasks[t].jobId].results[2].success
        /\ processingResults[tasks[t].jobId].failureCount = 1
        /\ processingResults[tasks[t].jobId].successCount = 1
        /\ GetProgress(tasks[t].jobId).progress = 100

====
